---- MODULE Spec2Model ----
(***************************************************************************)
(* Model of ska-sdp-datamodels:                                            *)
(*   - calibration/calibration_functions.py: HDF5 export / import of       *)
(*     GainTable and PointingTable (specification SpecHdf);                *)
(*   - visibility/vis_model.py, visibility/vis_create.py: the Visibility   *)
(*     container, its constructor and its selections (specification        *)
(*     SpecVis), its accessor properties (SpecAcc), its legacy imaging     *)
(*     weight (SpecIw) and the FlagTable derived from it (SpecFt).         *)
(* Python exceptions are modelled as results [ok |-> FALSE, err |-> kind]. *)
(* `assert` statements are modelled as executed (raising AssertionError).  *)
(***************************************************************************)
EXTENDS Integers, Sequences, FiniteSets, TLC

VARIABLES
    file,       \* the HDF5 file on disk (one file name)
    arg,        \* the argument of the last call that wrote the file
    origin,     \* which call wrote the file last, and how it ended
    outcome,    \* result of the last export / import / convert call
    prevGroups, \* number of groups the file held before the last write,
                \* counted up to the number it holds now, plus one
    vis,        \* the Visibility container under test (SpecVis)
    visout,     \* result of the last Visibility call (SpecVis)
    ft          \* the FlagTable under test (SpecFt)

hdfvars == <<file, arg, origin, outcome, prevGroups>>
visvars == <<vis, visout, ft>>
vars == <<file, arg, origin, outcome, prevGroups, vis, visout, ft>>

\* ---------------------------------------------------------------- bounds
\* longest list of containers handed to an export call
MaxList == 2

\* most times (hour angles) handed to create_visibility, and most times of
\* the arrays handed to Visibility.constructor
MaxTimes == 2

\* ------------------------------------------------------ generic helpers
EmptyFcn == [x \in {} |-> 0]

\* f with key k set to v (dict item assignment)
Put(f, k, v) == [x \in (DOMAIN f) \cup {k} |-> IF x = k THEN v ELSE f[x]]

SeqsUpTo(S, n) == UNION {[1..k -> S] : k \in 0..n}

\* ------------------------------------------------- containers (inputs)
\* bulk array of field number k of data variant d: two elements
Arr(d, k) == <<10 * k + d, 10 * k + d + 1>>

NoConfig == [present |-> FALSE, name |-> "", names |-> <<>>]
Config(n) ==
    [present |-> TRUE,
     name |-> IF n = 1 THEN "LOWBD2" ELSE "MID",
     names |-> [i \in 1..n |-> i]]

SkyCoord(ra, dec, frame) == [ra |-> ra, dec |-> dec, frame |-> frame]

\* SkyCoord.to_string(): "<ra> <dec>", modelled as the sequence of its
\* whitespace-separated tokens; str.split() + float() reads them back
to_string(sc) == <<sc.ra, sc.dec>>
split(s) == [ra |-> s[1], dec |-> s[2]]

\* GainTable.constructor (calibration_model.py): jones_type and
\* configuration are keyword arguments with defaults
DefaultJonesType == "T"

GainTable_constructor(time, frequency, gain, weight, residual, interval, receptor_frame, phasecentre, configuration, jones_type) ==
    [is_dataset |-> TRUE,
     attrs |-> [data_model |-> "GainTable",
                receptor_frame1 |-> receptor_frame[1],
                receptor_frame2 |-> receptor_frame[2],
                phasecentre |-> phasecentre,
                jones_type |-> jones_type,
                configuration |-> configuration],
     data |-> [time |-> time, frequency |-> frequency, gain |-> gain,
               weight |-> weight, residual |-> residual,
               interval |-> interval]]

PointingTable_constructor(time, pointing, nominal, weight, residual, interval, frequency, receptor_frame, pointing_frame, pointingcentre, configuration) ==
    [is_dataset |-> TRUE,
     attrs |-> [data_model |-> "PointingTable",
                receptor_frame |-> receptor_frame,
                pointingcentre |-> pointingcentre,
                pointing_frame |-> pointing_frame,
                configuration |-> configuration],
     data |-> [time |-> time, pointing |-> pointing, nominal |-> nominal,
               weight |-> weight, residual |-> residual,
               interval |-> interval, frequency |-> frequency]]

\* the valid GainTables the callers hold: two data variants, each with its
\* own metadata
SampleGainTable(d) ==
    GainTable_constructor(
        Arr(d, 1), Arr(d, 2), Arr(d, 3), Arr(d, 4), Arr(d, 5), Arr(d, 6),
        IF d = 1 THEN <<"linear", "linear">> ELSE <<"linear", "circular">>,
        IF d = 1 THEN SkyCoord(180, -35, "icrs") ELSE SkyCoord(15, 45, "fk5"),
        IF d = 1 THEN NoConfig ELSE Config(2),
        IF d = 1 THEN "T" ELSE "B")

SamplePointingTable(d) ==
    PointingTable_constructor(
        Arr(d, 1), Arr(d, 7), Arr(d, 8), Arr(d, 4), Arr(d, 5), Arr(d, 6),
        Arr(d, 2),
        IF d = 1 THEN "linear" ELSE "circular",
        IF d = 1 THEN "azel" ELSE "local",
        IF d = 1 THEN SkyCoord(180, -35, "icrs") ELSE SkyCoord(15, 45, "fk5"),
        Config(d))

GainTables == {SampleGainTable(d) : d \in 1..2}
PointingTables == {SamplePointingTable(d) : d \in 1..2}

\* something that is no xarray.Dataset (and not iterable)
NotADataset == [is_dataset |-> FALSE, attrs |-> EmptyFcn, data |-> EmptyFcn]

Tables(type) == IF type = "GainTable" THEN GainTables ELSE PointingTables

\* what a caller may put where a container of the given type is expected:
\* a container of that type, a container of the other type, or no Dataset
Elements(type) ==
    Tables(type)
    \cup {IF type = "GainTable" THEN SamplePointingTable(1) ELSE SampleGainTable(1),
          NotADataset}

\* what a caller passes to an export function: one object, a list, or a
\* tuple (an iterable that is no list)
Args(type) ==
    {[shape |-> "one", items |-> <<e>>] : e \in Elements(type)}
    \cup {[shape |-> "list", items |-> l] :
            l \in SeqsUpTo(Tables(type) \cup {NotADataset}, MaxList)}
    \cup {[shape |-> "tuple", items |-> l] :
            l \in SeqsUpTo({CHOOSE c \in Tables(type) : TRUE}, MaxList)}

NoArg == [shape |-> "none", items |-> <<>>]

\* ------------------------------------------------------------ HDF5 file
EmptyGroup == [attrs |-> EmptyFcn, datasets |-> EmptyFcn, subgroups |-> EmptyFcn]

NoFile == [exists |-> FALSE, attrs |-> EmptyFcn, groups |-> EmptyFcn]

\* faulty variant: the file is opened in mode "a", which keeps what it holds
OpenFileAppend(old) == [old EXCEPT !.exists = TRUE]

\* h5py.File(filename, "w"): create the file, truncate it if it exists
OpenFileW(old) == [exists |-> TRUE, attrs |-> EmptyFcn, groups |-> EmptyFcn]

HasGroup(f, name) == name \in DOMAIN f.groups

\* f.create_group(name); the name is <<prefix, i>> for f"{prefix}{i}"
create_group(f, name) == [f EXCEPT !.groups = Put(f.groups, name, EmptyGroup)]

SetGroup(f, name, g) == [f EXCEPT !.groups = Put(f.groups, name, g)]

SetFileAttr(f, k, v) == [f EXCEPT !.attrs = Put(f.attrs, k, v)]

Ok(v) == [ok |-> TRUE, err |-> "", value |-> v]
Raise(e, v) == [ok |-> FALSE, err |-> e, value |-> v]

\* ------------------------------------------- configuration sub-group
\* convert_configuration_to_hdf / convert_configuration_from_hdf
\* (configuration package): the configuration's own symmetric contract,
\* a sub-group "configuration" holding the configuration's fields
convert_configuration_to_hdf(config, g) ==
    IF ~config.present
    THEN Raise("ValueError", g)
    ELSE Ok([g EXCEPT !.subgroups =
                Put(g.subgroups, "configuration",
                    [name |-> config.name, names |-> config.names])])

convert_configuration_from_hdf(g) ==
    IF "configuration" \notin DOMAIN g.subgroups
    THEN Raise("KeyError", NoConfig)
    ELSE LET c == g.subgroups["configuration"]
         IN Ok([present |-> TRUE, name |-> c.name, names |-> c.names])

\* --------------------------------------------------------- GainTable
GainTableDatavars ==
    {"time", "gain", "weight", "residual", "interval", "frequency"}

DatasetName(var) ==
    CASE var = "time" -> "data_time"
      [] var = "gain" -> "data_gain"
      [] var = "weight" -> "data_weight"
      [] var = "residual" -> "data_residual"
      [] var = "interval" -> "data_interval"
      [] var = "frequency" -> "data_frequency"
      [] var = "nominal" -> "data_nominal"
      [] var = "pointing" -> "data_pointing"

\* for var in datavars: f[f"data_{var}"] = c[var].data
WriteDatavars(c, datavars) ==
    LET names == {DatasetName(v) : v \in datavars}
    IN [n \in names |-> c.data[CHOOSE v \in datavars : DatasetName(v) = n]]

\* convert_gaintable_to_hdf(gt, f): the two checks come before any write
convert_gaintable_to_hdf(gt, g) ==
    IF ~gt.is_dataset THEN Raise("ValueError", g)
    ELSE IF gt.attrs["data_model"] # "GainTable" THEN Raise("ValueError", g)
    ELSE Ok([g EXCEPT
        !.attrs = [k \in {"data_model", "receptor_frame1", "receptor_frame2",
                          "phasecentre_coords", "phasecentre_frame"} |->
                    CASE k = "data_model" -> "GainTable"
                      [] k = "receptor_frame1" -> gt.attrs.receptor_frame1
                      [] k = "receptor_frame2" -> gt.attrs.receptor_frame2
                      [] k = "phasecentre_coords" -> to_string(gt.attrs.phasecentre)
                      [] k = "phasecentre_frame" -> gt.attrs.phasecentre.frame],
        !.datasets = WriteDatavars(gt, GainTableDatavars)])

GainTableAttrs ==
    {"data_model", "receptor_frame1", "receptor_frame2",
     "phasecentre_coords", "phasecentre_frame"}

\* convert_hdf_to_gaintable(f): the constructor call passes neither
\* jones_type nor configuration, so both take the constructor's defaults
ReadGainTable(g) ==
    IF ~(GainTableAttrs \ {"data_model"} \subseteq DOMAIN g.attrs)
        \/ ~({DatasetName(v) : v \in GainTableDatavars} \subseteq DOMAIN g.datasets)
    THEN Raise("KeyError", NotADataset)
    ELSE LET s == split(g.attrs["phasecentre_coords"])
             phasecentre == SkyCoord(s.ra, s.dec, g.attrs["phasecentre_frame"])
         IN Ok(GainTable_constructor(
                g.datasets["data_time"], g.datasets["data_frequency"],
                g.datasets["data_gain"], g.datasets["data_weight"],
                g.datasets["data_residual"], g.datasets["data_interval"],
                <<g.attrs["receptor_frame1"], g.attrs["receptor_frame2"]>>,
                phasecentre, NoConfig, DefaultJonesType))

\* faulty variant: the data_model check is missing
convert_hdf_to_gaintable_NoCheck(g) == ReadGainTable(g)

convert_hdf_to_gaintable(g) ==
    IF "data_model" \notin DOMAIN g.attrs THEN Raise("KeyError", NotADataset)
    ELSE IF g.attrs["data_model"] # "GainTable"
    THEN Raise("AssertionError", NotADataset)
    ELSE ReadGainTable(g)

\* the loop of export_gaintable_to_hdf5 over enumerate(gt), from index i on;
\* an exception leaves the with-block, which closes the file as written so far
RECURSIVE ExportGainTableLoop(_, _, _)
ExportGainTableLoop(items, i, f) ==
    IF i >= Len(items) THEN Ok(f)
    ELSE LET name == <<"GainTable", i>>
         IN IF HasGroup(f, name) THEN Raise("ValueError", f)
            ELSE LET r == convert_gaintable_to_hdf(items[i + 1], EmptyGroup)
                 IN IF ~r.ok THEN Raise(r.err, SetGroup(f, name, r.value))
                    ELSE ExportGainTableLoop(items, i + 1, SetGroup(f, name, r.value))

\* export_gaintable_to_hdf5(gt, filename); old is the file as it was.
\* An xarray.Dataset is a Mapping, hence Iterable: only a non-iterable
\* object is wrapped into a list.
export_gaintable_to_hdf5(a, old) ==
    LET wrapped == a.shape = "one" /\ ~a.items[1].is_dataset
        is_list == a.shape = "list" \/ wrapped
        f == OpenFileW(old)
    IN IF is_list
       THEN ExportGainTableLoop(
                a.items, 0, SetFileAttr(f, "number_data_models", Len(a.items)))
       ELSE LET f1 == SetFileAttr(f, "number_data_models", 1)
                name == <<"GainTable", 0>>
            IN IF HasGroup(f1, name) THEN Raise("ValueError", f1)
               ELSE IF a.shape = "tuple"
               THEN Raise("ValueError", create_group(f1, name))
               ELSE LET r == convert_gaintable_to_hdf(a.items[1], EmptyGroup)
                    IN IF ~r.ok THEN Raise(r.err, SetGroup(f1, name, r.value))
                       ELSE Ok(SetGroup(f1, name, r.value))

NoValue == [shape |-> "none", items |-> <<>>]

\* [convert_hdf_to_gaintable(f[f"GainTable{i}"]) for i in range(ngtlist)],
\* from index i on, acc the containers converted so far.
\* faulty variant: the list is built back to front
RECURSIVE ImportGainTableLoopReversed(_, _, _, _)
ImportGainTableLoopReversed(f, n, i, acc) ==
    IF i >= n THEN Ok(acc)
    ELSE IF ~HasGroup(f, <<"GainTable", i>>) THEN Raise("KeyError", <<>>)
    ELSE LET r == convert_hdf_to_gaintable(f.groups[<<"GainTable", i>>])
         IN IF ~r.ok THEN Raise(r.err, <<>>)
            ELSE ImportGainTableLoopReversed(f, n, i + 1, <<r.value>> \o acc)

\* [... for i in range(ngtlist)]
RECURSIVE ImportGainTableLoop(_, _, _, _)
ImportGainTableLoop(f, n, i, acc) ==
    IF i >= n THEN Ok(acc)
    ELSE IF ~HasGroup(f, <<"GainTable", i>>) THEN Raise("KeyError", <<>>)
    ELSE LET r == convert_hdf_to_gaintable(f.groups[<<"GainTable", i>>])
         IN IF ~r.ok THEN Raise(r.err, <<>>)
            ELSE ImportGainTableLoop(f, n, i + 1, Append(acc, r.value))

\* faulty variant: the N == 1 case is not unwrapped
import_gaintable_from_hdf5_AlwaysList(f) ==
    IF ~f.exists THEN Raise("OSError", NoValue)
    ELSE IF "number_data_models" \notin DOMAIN f.attrs
    THEN Raise("KeyError", NoValue)
    ELSE LET r == ImportGainTableLoop(f, f.attrs["number_data_models"], 0, <<>>)
         IN IF ~r.ok THEN Raise(r.err, NoValue)
            ELSE Ok([shape |-> "list", items |-> r.value])

\* import_gaintable_from_hdf5(filename)
import_gaintable_from_hdf5(f) ==
    IF ~f.exists THEN Raise("OSError", NoValue)
    ELSE IF "number_data_models" \notin DOMAIN f.attrs
    THEN Raise("KeyError", NoValue)
    ELSE LET ngtlist == f.attrs["number_data_models"]
             r == ImportGainTableLoop(f, ngtlist, 0, <<>>)
         IN IF ~r.ok THEN Raise(r.err, NoValue)
            ELSE IF ngtlist = 1
            THEN Ok([shape |-> "one", items |-> <<r.value[1]>>])
            ELSE Ok([shape |-> "list", items |-> r.value])

\* ------------------------------------------------------ PointingTable
PointingTableDatavars ==
    {"time", "nominal", "pointing", "weight", "residual", "interval",
     "frequency"}

PointingTableAttrs ==
    {"data_model", "receptor_frame", "pointingcentre_coords",
     "pointingcentre_frame", "pointing_frame"}

\* convert_pointingtable_to_hdf(pt, f)
convert_pointingtable_to_hdf(pt, g) ==
    IF ~pt.is_dataset THEN Raise("ValueError", g)
    ELSE IF pt.attrs["data_model"] # "PointingTable" THEN Raise("ValueError", g)
    ELSE convert_configuration_to_hdf(pt.attrs.configuration,
        [g EXCEPT
         !.attrs = [k \in PointingTableAttrs |->
                    CASE k = "data_model" -> "PointingTable"
                      [] k = "receptor_frame" -> pt.attrs.receptor_frame
                      [] k = "pointingcentre_coords" -> to_string(pt.attrs.pointingcentre)
                      [] k = "pointingcentre_frame" -> pt.attrs.pointingcentre.frame
                      [] k = "pointing_frame" -> pt.attrs.pointing_frame],
         !.datasets = WriteDatavars(pt, PointingTableDatavars)])

ReadPointingTable(g) ==
    IF ~(PointingTableAttrs \ {"data_model"} \subseteq DOMAIN g.attrs)
        \/ ~({DatasetName(v) : v \in PointingTableDatavars} \subseteq DOMAIN g.datasets)
    THEN Raise("KeyError", NotADataset)
    ELSE LET s == split(g.attrs["pointingcentre_coords"])
             pointingcentre == SkyCoord(s.ra, s.dec, g.attrs["pointingcentre_frame"])
             configuration == convert_configuration_from_hdf(g)
         IN IF ~configuration.ok THEN Raise(configuration.err, NotADataset)
            ELSE Ok(PointingTable_constructor(
                g.datasets["data_time"], g.datasets["data_pointing"],
                g.datasets["data_nominal"], g.datasets["data_weight"],
                g.datasets["data_residual"], g.datasets["data_interval"],
                g.datasets["data_frequency"],
                g.attrs["receptor_frame"], g.attrs["pointing_frame"],
                pointingcentre, configuration.value))

\* convert_hdf_to_pointingtable(f)
convert_hdf_to_pointingtable(g) ==
    IF "data_model" \notin DOMAIN g.attrs THEN Raise("KeyError", NotADataset)
    ELSE IF g.attrs["data_model"] # "PointingTable"
    THEN Raise("AssertionError", NotADataset)
    ELSE ReadPointingTable(g)

RECURSIVE ExportPointingTableLoop(_, _, _)
ExportPointingTableLoop(items, i, f) ==
    IF i >= Len(items) THEN Ok(f)
    ELSE LET name == <<"PointingTable", i>>
         IN IF HasGroup(f, name) THEN Raise("ValueError", f)
            ELSE LET r == convert_pointingtable_to_hdf(items[i + 1], EmptyGroup)
                 IN IF ~r.ok THEN Raise(r.err, SetGroup(f, name, r.value))
                    ELSE ExportPointingTableLoop(items, i + 1, SetGroup(f, name, r.value))

\* export_pointingtable_to_hdf5(pt, filename)
export_pointingtable_to_hdf5(a, old) ==
    LET wrapped == a.shape = "one" /\ ~a.items[1].is_dataset
        is_list == a.shape = "list" \/ wrapped
        f == OpenFileW(old)
    IN IF is_list
       THEN ExportPointingTableLoop(
                a.items, 0, SetFileAttr(f, "number_data_models", Len(a.items)))
       ELSE LET f1 == SetFileAttr(f, "number_data_models", 1)
                name == <<"PointingTable", 0>>
            IN IF HasGroup(f1, name) THEN Raise("ValueError", f1)
               ELSE IF a.shape = "tuple"
               THEN Raise("ValueError", create_group(f1, name))
               ELSE LET r == convert_pointingtable_to_hdf(a.items[1], EmptyGroup)
                    IN IF ~r.ok THEN Raise(r.err, SetGroup(f1, name, r.value))
                       ELSE Ok(SetGroup(f1, name, r.value))

RECURSIVE ImportPointingTableLoop(_, _, _, _)
ImportPointingTableLoop(f, n, i, acc) ==
    IF i >= n THEN Ok(acc)
    ELSE IF ~HasGroup(f, <<"PointingTable", i>>) THEN Raise("KeyError", <<>>)
    ELSE LET r == convert_hdf_to_pointingtable(f.groups[<<"PointingTable", i>>])
         IN IF ~r.ok THEN Raise(r.err, <<>>)
            ELSE ImportPointingTableLoop(f, n, i + 1, Append(acc, r.value))

\* import_pointingtable_from_hdf5(filename)
import_pointingtable_from_hdf5(f) ==
    IF ~f.exists THEN Raise("OSError", NoValue)
    ELSE IF "number_data_models" \notin DOMAIN f.attrs
    THEN Raise("KeyError", NoValue)
    ELSE LET nptlist == f.attrs["number_data_models"]
             r == ImportPointingTableLoop(f, nptlist, 0, <<>>)
         IN IF ~r.ok THEN Raise(r.err, NoValue)
            ELSE IF nptlist = 1
            THEN Ok([shape |-> "one", items |-> <<r.value[1]>>])
            ELSE Ok([shape |-> "list", items |-> r.value])

\* ------------------------------------------------------ SpecHdf actions
TypeNames == {"GainTable", "PointingTable"}

Export(type, a, old) ==
    IF type = "GainTable" THEN export_gaintable_to_hdf5(a, old)
    ELSE export_pointingtable_to_hdf5(a, old)

Import(type, f) ==
    IF type = "GainTable" THEN import_gaintable_from_hdf5(f)
    ELSE import_pointingtable_from_hdf5(f)

ConvertToHdf(c, g) ==
    IF c.attrs["data_model"] = "GainTable" THEN convert_gaintable_to_hdf(c, g)
    ELSE convert_pointingtable_to_hdf(c, g)

ConvertFromHdf(type, g) ==
    IF type = "GainTable" THEN convert_hdf_to_gaintable(g)
    ELSE convert_hdf_to_pointingtable(g)

NoOutcome ==
    [op |-> "none", type |-> "", ok |-> TRUE, err |-> "", value |-> NoValue,
     before |-> NoFile, group |-> <<"", 0>>]

NGroups(f) == Cardinality(DOMAIN f.groups)

Min(a, b) == IF a < b THEN a ELSE b

\* a caller exports a, an object, list or tuple, with export_<type>_to_hdf5
ExportCall(type, a) ==
    LET r == Export(type, a, file)
    IN /\ file' = r.value
       /\ arg' = a
       /\ origin' = [by |-> "export", type |-> type, ok |-> r.ok]
       /\ outcome' = [NoOutcome EXCEPT !.op = "export", !.type = type,
                                       !.ok = r.ok, !.err = r.err]
       /\ prevGroups' = Min(NGroups(file), NGroups(file') + 1)
       /\ UNCHANGED visvars

\* a caller imports the file with import_<type>_from_hdf5
ImportCall(type) ==
    LET r == Import(type, file)
    IN /\ outcome' = [NoOutcome EXCEPT !.op = "import", !.type = type,
                                       !.ok = r.ok, !.err = r.err,
                                       !.value = r.value]
       /\ UNCHANGED <<file, arg, origin, prevGroups, visvars>>

\* a caller exports again what the last import returned
ReExportCall ==
    /\ outcome.op = "import"
    /\ outcome.ok
    /\ LET r == Export(outcome.type, outcome.value, file)
       IN /\ file' = r.value
          /\ arg' = outcome.value
          /\ origin' = [by |-> "export", type |-> outcome.type, ok |-> r.ok]
          /\ outcome' = [NoOutcome EXCEPT !.op = "reexport", !.type = outcome.type,
                                          !.ok = r.ok, !.err = r.err,
                                          !.before = file]
          /\ prevGroups' = Min(NGroups(file), NGroups(file') + 1)
    /\ UNCHANGED visvars

\* a caller reads one group of the file with convert_hdf_to_<type>
ConvertCall(type, name) ==
    /\ file.exists
    /\ HasGroup(file, name)
    /\ LET r == ConvertFromHdf(type, file.groups[name])
       IN outcome' = [NoOutcome EXCEPT !.op = "convert", !.type = type,
                                       !.ok = r.ok, !.err = r.err,
                                       !.value = [shape |-> "one", items |-> <<r.value>>],
                                       !.group = name]
    /\ UNCHANGED <<file, arg, origin, prevGroups, visvars>>

\* a file written by another program with the public convert_*_to_hdf
\* functions: groups prefix0 .. prefixN-1, each filled from a container by
\* the convert function of that container's own type
RECURSIVE ForeignGroups(_, _, _, _)
ForeignGroups(prefix, items, i, f) ==
    IF i >= Len(items) THEN f
    ELSE ForeignGroups(prefix, items, i + 1,
            SetGroup(f, <<prefix, i>>, ConvertToHdf(items[i + 1], EmptyGroup).value))

ForeignWrite(prefix, items) ==
    /\ file' = ForeignGroups(prefix, items, 0,
                  SetFileAttr(OpenFileW(file), "number_data_models", Len(items)))
    /\ arg' = [shape |-> "list", items |-> items]
    /\ origin' = [by |-> "foreign", type |-> prefix, ok |-> TRUE]
    /\ outcome' = [NoOutcome EXCEPT !.op = "foreign", !.type = prefix]
    /\ prevGroups' = Min(NGroups(file), NGroups(file') + 1)
    /\ UNCHANGED visvars

InitHdf ==
    /\ file = NoFile
    /\ arg = NoArg
    /\ origin = [by |-> "none", type |-> "", ok |-> TRUE]
    /\ outcome = NoOutcome
    /\ prevGroups = 0
    /\ vis = <<>>
    /\ visout = <<>>
    /\ ft = <<>>

GroupNames == {<<t, i>> : t \in TypeNames, i \in 0..MaxList}

NextHdf ==
    \/ \E t \in TypeNames : \E a \in Args(t) : ExportCall(t, a)
    \/ \E t \in TypeNames : ImportCall(t)
    \/ ReExportCall
    \/ \E t \in TypeNames, n \in GroupNames : ConvertCall(t, n)
    \/ \E t \in TypeNames,
          l \in SeqsUpTo({SampleGainTable(1), SamplePointingTable(2)}, MaxList) :
            ForeignWrite(t, l)

\* SpecHdf leaves the Visibility state idle
SpecHdf == InitHdf /\ [][NextHdf]_vars

\* ------------------------------------------------------ SpecHdf claims
\* the file was written by a successful export_<type>_to_hdf5 call and the
\* last call imported it with import_<type>_from_hdf5 of the same type
ImportedExport ==
    /\ outcome.op = "import"
    /\ origin.by = "export"
    /\ origin.ok
    /\ outcome.type = origin.type

\* C1: importing the file written by the matching export yields containers
\* whose bulk arrays equal those exported, position by position; a list of
\* N > 1 containers comes back as a list of N, one container as one.
C1_RoundTripBulkArrays ==
    ImportedExport =>
        /\ outcome.ok
        /\ Len(outcome.value.items) = Len(arg.items)
        /\ \A i \in 1..Len(arg.items) :
              outcome.value.items[i].data = arg.items[i].data
        /\ (Len(arg.items) > 1 => outcome.value.shape = "list")
        /\ (arg.shape = "one" => outcome.value.shape = "one")

C1_Witness ==
    /\ ImportedExport
    /\ outcome.ok
    /\ arg.shape = "list"
    /\ Len(arg.items) = 2
    /\ arg.items[1].data # arg.items[2].data

\* C2: import(export(c)) has every metadata field equal to that of c
\* (receptor frame tags, centre, jones_type / pointing_frame, configuration).
C2_RoundTripMetadata ==
    ImportedExport =>
        /\ outcome.ok
        /\ Len(outcome.value.items) = Len(arg.items)
        /\ \A i \in 1..Len(arg.items) :
              outcome.value.items[i].attrs = arg.items[i].attrs

\* the file layout of the claim, written out
DataFields(type) ==
    IF type = "GainTable"
    THEN {"data_time", "data_gain", "data_weight", "data_residual",
          "data_interval", "data_frequency"}
    ELSE {"data_time", "data_nominal", "data_pointing", "data_weight",
          "data_residual", "data_interval", "data_frequency"}

\* C3: after a successful export of one container or of a list of N, the
\* file's number_data_models is N and its groups are exactly <Type>0 ..
\* <Type>N-1, each tagged with the type and holding one data_<field>
\* dataset per bulk array, whatever the file held before.
C3_ExportLayout ==
    (origin.by = "export" /\ origin.ok) =>
        LET N == IF arg.shape = "list" THEN Len(arg.items) ELSE 1
        IN /\ file.exists
           /\ DOMAIN file.attrs = {"number_data_models"}
           /\ file.attrs["number_data_models"] = N
           /\ DOMAIN file.groups = {<<origin.type, i>> : i \in 0..(N - 1)}
           /\ \A n \in DOMAIN file.groups :
                /\ "data_model" \in DOMAIN file.groups[n].attrs
                /\ file.groups[n].attrs["data_model"] = origin.type
                /\ DOMAIN file.groups[n].datasets = DataFields(origin.type)

C3_Witness ==
    /\ origin.by = "export"
    /\ origin.ok
    /\ outcome.op = "export"
    /\ prevGroups > NGroups(file)
    /\ NGroups(file) = 1

\* a group that holds a whole container of some type
CompleteGroup(g) ==
    /\ "data_model" \in DOMAIN g.attrs
    /\ \E t \in TypeNames :
          g.attrs["data_model"] = t /\ DOMAIN g.datasets = DataFields(t)

\* C4: after a failed export the file does not exist, or its
\* number_data_models equals the number of complete groups it holds (the
\* format has no "incomplete" mark).
C4_FailedExportConsistent ==
    (origin.by = "export" /\ ~origin.ok) =>
        \/ ~file.exists
        \/ /\ "number_data_models" \in DOMAIN file.attrs
           /\ file.attrs["number_data_models"] =
                Cardinality({n \in DOMAIN file.groups : CompleteGroup(file.groups[n])})

\* C5: import reads N = number_data_models, converts <Type>0 .. <Type>N-1
\* in ascending order, returns the container itself when N = 1 and a list of
\* N otherwise; exporting what it returned writes the same file again.
C5_ImportArityRoundTrip ==
    /\ (outcome.op = "import" /\ outcome.ok) =>
          LET N == file.attrs["number_data_models"]
          IN /\ Len(outcome.value.items) = N
             /\ (N = 1 => outcome.value.shape = "one")
             /\ (N # 1 => outcome.value.shape = "list")
             /\ \A i \in 0..(N - 1) :
                   outcome.value.items[i + 1] =
                      ConvertFromHdf(outcome.type,
                                     file.groups[<<outcome.type, i>>]).value
    /\ outcome.op = "reexport" => (outcome.ok /\ file = outcome.before)

C5_Witness ==
    /\ outcome.op = "reexport"
    /\ outcome.ok
    /\ arg.shape = "one"
    /\ file = outcome.before
    /\ file.attrs["number_data_models"] = 1

\* the file follows the naming of the format, and group <type>i carries a
\* data_model attribute that is not the expected tag
MismatchedGroup(type, i) ==
    /\ HasGroup(file, <<type, i>>)
    /\ "data_model" \in DOMAIN file.groups[<<type, i>>].attrs
    /\ file.groups[<<type, i>>].attrs["data_model"] # type

\* C6: importing a file in which a group's data_model is not the expected
\* tag raises the type error (the assert's AssertionError) and returns
\* nothing, for the file-level import and for convert_hdf_to_* on one group.
C6_NotThisType ==
    /\ (/\ outcome.op = "import"
        /\ file.exists
        /\ \E i \in 0..(file.attrs["number_data_models"] - 1) :
              MismatchedGroup(outcome.type, i))
          => (/\ ~outcome.ok
              /\ outcome.err = "AssertionError"
              /\ outcome.value = NoValue)
    /\ (/\ outcome.op = "convert"
        /\ "data_model" \in DOMAIN file.groups[outcome.group].attrs
        /\ file.groups[outcome.group].attrs["data_model"] # outcome.type)
          => (/\ ~outcome.ok
              /\ outcome.err = "AssertionError"
              /\ outcome.value.items[1] = NotADataset)

C6_Witness ==
    /\ outcome.op = "import"
    /\ origin.by = "foreign"
    /\ file.attrs["number_data_models"] = 2
    /\ ~MismatchedGroup(outcome.type, 0)
    /\ MismatchedGroup(outcome.type, 1)
    /\ outcome.err = "AssertionError"

\* =================================================== Visibility (SpecVis)
\* Python's None and a present value x; the value is read as .v where .none
\* is FALSE
None == [none |-> TRUE]
Some(x) == [none |-> FALSE, v |-> x]

\* ------------------------------------------------------------- arrays
\* an N-d numpy array: its shape and its elements by (1-based) index tuple;
\* 1-d arrays (time, frequency, ...) are sequences
Idx(shape) ==
    CASE Len(shape) = 1 -> {<<i>> : i \in 1..shape[1]}
      [] Len(shape) = 3 -> (1..shape[1]) \X (1..shape[2]) \X (1..shape[3])
      [] Len(shape) = 4 ->
            (1..shape[1]) \X (1..shape[2]) \X (1..shape[3]) \X (1..shape[4])

\* numpy.zeros / numpy.ones / numpy.full
Full(shape, x) == [shape |-> shape, data |-> [i \in Idx(shape) |-> x]]

\* arrays of a FlagTable also name the memory that holds their elements:
\* "vis.flags" is the array held by the flags variable of the Visibility,
\* "own" an array nothing else holds. An in-place write of the elements
\* `written` into "vis.flags" is seen through every array on that memory.
SharedWrite(a, written) ==
    IF a.buffer = "vis.flags" THEN [a EXCEPT !.data = written.data] ELSE a

\* ------------------------------------------------------ configurations
\* antenna positions xyz by id 0..nants-1 (sequence index id + 1), on a line
\* along (3, 4, 12): the antenna at parameter p is 13*|p - q| from the one
\* at q in 3-d and 5*|p - q| in the (x, y) plane
AntennaAt(p) == <<3 * p, 4 * p, 12 * p>>

ConfigA ==
    [name |-> "A", receptor_frame |-> "stokesI",
     xyz |-> <<AntennaAt(0), AntennaAt(1), AntennaAt(5)>>]

ConfigB ==
    [name |-> "B", receptor_frame |-> "linearnp",
     xyz |-> <<AntennaAt(1), AntennaAt(3)>>]

Configurations == {ConfigA, ConfigB}

\* configuration_acc.nants
nants(config) == Len(config.xyz)

\* PolarisationFrame(type).names (science_data_model)
PolarisationNames(type) ==
    CASE type = "stokesI" -> <<"I">>
      [] type = "linearnp" -> <<"XX", "YY">>

\* correlate_polarisation(receptor_frame) (science_data_model)
correlate_polarisation(receptor_frame) == receptor_frame

PhaseCentre == SkyCoord(180, -35, "icrs")

\* ------------------------------------------------- baseline enumeration
\* faulty variant: the pairs are numbered by position, 0 .. n-1, whatever
\* the ids are
PairsOfPositions(ids) ==
    LET n == Len(ids)
        all == [k \in 1..(n * n) |-> <<(k - 1) \div n, (k - 1) % n>>]
    IN SelectSeq(all, LAMBDA pr : pr[2] >= pr[1])

\* the pairs (a1, a2) with a2 >= a1 of two nested loops over ids, in loop
\* order: generate_baselines inside select_r_range
PairsOf(ids) ==
    LET n == Len(ids)
        all == [k \in 1..(n * n) |->
                  <<ids[((k - 1) \div n) + 1], ids[((k - 1) % n) + 1]>>]
    IN SelectSeq(all, LAMBDA pr : pr[2] >= pr[1])

\* vis_utils.generate_baselines(nants): the same rule over 0 .. nants-1
generate_baselines(n) == PairsOf([i \in 1..n |-> i - 1])

\* --------------------------------------------------------- constructor
\* xarray.Dataset.__init__: every data variable must have the length of
\* each of its dimensions' coordinates, else ValueError
DimsAgree(time, baselines, frequency, npol, integration_time, visdata, weight, flags, uvw, channel_bandwidth) ==
    LET shape4 == <<Len(time), Len(baselines), Len(frequency), npol>>
    IN /\ Len(integration_time) = Len(time)
       /\ visdata.shape = shape4
       /\ weight.shape = shape4
       /\ flags.shape = shape4
       /\ uvw.shape = <<Len(time), Len(baselines), 3>>
       /\ Len(channel_bandwidth) = Len(frequency)

\* Time(time / 86400.0, format="mjd", scale="utc").datetime64: day and
\* second of day
datetime64(time) == [i \in DOMAIN time |-> <<time[i] \div 86400, time[i] % 86400>>]

\* faulty variant: the default weight is all zeros
DefaultWeightZero(shape) == Full(shape, 0)

\* weight = numpy.ones(vis.shape)
DefaultWeight(shape) == Full(shape, 1)

\* Visibility.constructor(...); weight and integration_time are None or a
\* value, phasecentre is None or a SkyCoord
Visibility_constructor(frequency, channel_bandwidth, phasecentre, configuration, uvw, time, visdata, weight, integration_time, flags, baselines, polarisation_frame, source) ==
    IF ~weight.none /\ weight.v.shape # visdata.shape
    THEN Raise("AssertionError", None)
    ELSE IF ~integration_time.none /\ Len(integration_time.v) # Len(time)
    THEN Raise("AssertionError", None)
    ELSE
      LET w == IF weight.none THEN DefaultWeight(visdata.shape) ELSE weight.v
          it == IF integration_time.none THEN [i \in DOMAIN time |-> 1]
                ELSE integration_time.v
          names == PolarisationNames(polarisation_frame)
      IN IF ~DimsAgree(time, baselines, frequency, Len(names), it, visdata,
                       w, flags, uvw, channel_bandwidth)
         THEN Raise("ValueError", None)
         ELSE Ok(Some(
            [time |-> time, baselines |-> baselines, frequency |-> frequency,
             polarisation |-> names,
             integration_time |-> it, datetime |-> datetime64(time),
             vis |-> visdata, weight |-> w, flags |-> flags, uvw |-> uvw,
             channel_bandwidth |-> channel_bandwidth,
             data_model |-> "Visibility", configuration |-> configuration,
             source |-> source, phasecentre |-> phasecentre,
             polarisation_frame |-> polarisation_frame,
             imaging_weight |-> None, uvw_lambda |-> None]))

\* ---------------------------------------------------- create_visibility
\* hadec_to_azel(ha, dec, latitude)[1]: the elevation (degrees) of the
\* source at hour angle ha; the three hour angles callers use
Elevation(ha) ==
    CASE ha = 1 -> 20
      [] ha = 2 -> 10
      [] ha = 3 -> 15

HourAngles == {1, 2, 3}

\* xyz_to_uvw(ants_xyz, ha, dec): antenna positions seen at hour angle ha
xyz_to_uvw(xyz, ha) == [a \in DOMAIN xyz |-> <<ha * xyz[a][1], ha * xyz[a][2], xyz[a][3]>>]

\* stime.mjd * 86400.0 + time * 86400.0 / (2.0 * numpy.pi)
TimeOf(ha) == 172800 + 3600 * ha

Sub3(p, q) == <<p[1] - q[1], p[2] - q[2], p[3] - q[3]>>

\* the body of the baseline loop: weight and flag of baseline (a1, a2).
\* The flag set in either branch is overwritten by the unconditional
\* rflags[itime, ibaseline, ...] = 0 that follows the branch.
BaselineWeight(a1, a2, weight) == IF a1 # a2 THEN weight ELSE 0
BaselineFlag(a1, a2) ==
    LET in_branch == IF a1 # a2 THEN 0 ELSE 1
        after_branch == 0
    IN after_branch

\* faulty variant: a time whose elevation equals the limit is kept
create_visibility_body_AtOrAbove(config, times, frequency, phasecentre, channel_bandwidth, weight, polarisation_frame, integration_time, zerow, elevation_limit) ==
      LET frame == IF polarisation_frame.none
                   THEN correlate_polarisation(config.receptor_frame)
                   ELSE polarisation_frame.v
          baselines == generate_baselines(nants(config))
          nbaselines == Len(baselines)
          Above(ha) == elevation_limit.none \/ Elevation(ha) >= elevation_limit.v
          kept == SelectSeq(times, Above)
          ntimes == Len(kept)
      IN IF ntimes = 0 THEN Raise("ValueError", None)
         ELSE
           LET npol == Len(PolarisationNames(frame))
               nchan == Len(frequency)
               visshape == <<ntimes, nbaselines, nchan, npol>>
               rvis == Full(visshape, 0)
               rflags == [shape |-> visshape,
                          data |-> [i \in Idx(visshape) |->
                             BaselineFlag(baselines[i[2]][1], baselines[i[2]][2])]]
               rweight == [shape |-> visshape,
                           data |-> [i \in Idx(visshape) |->
                              BaselineWeight(baselines[i[2]][1],
                                             baselines[i[2]][2], weight)]]
               rtimes == [i \in 1..ntimes |-> TimeOf(kept[i])]
               between == [i \in 1..ntimes |->
                             IF i > 1 THEN rtimes[i] - rtimes[i - 1] ELSE 0]
               rintegrationtime ==
                   [i \in 1..ntimes |->
                       IF i > 1 THEN between[i]
                       ELSE IF ntimes > 1 THEN between[2] ELSE integration_time]
               uvwshape == <<ntimes, nbaselines, 3>>
               ruvw == [shape |-> uvwshape,
                        data |-> [i \in Idx(uvwshape) |->
                           LET ant_pos == xyz_to_uvw(config.xyz, kept[i[1]])
                               a1 == baselines[i[2]][1]
                               a2 == baselines[i[2]][2]
                           IN IF zerow /\ i[3] = 3 THEN 0
                              ELSE Sub3(ant_pos[a2 + 1], ant_pos[a1 + 1])[i[3]]]]
           IN Visibility_constructor(
                 frequency, channel_bandwidth, phasecentre, config, ruvw,
                 rtimes, rvis, Some(rweight), Some(rintegrationtime), rflags,
                 baselines, frame, "unknown")

\* create_visibility(config, times, frequency, phasecentre,
\*     channel_bandwidth, weight, polarisation_frame, integration_time,
\*     zerow, elevation_limit), from line 81 on
create_visibility_body(config, times, frequency, phasecentre, channel_bandwidth, weight, polarisation_frame, integration_time, zerow, elevation_limit) ==
      LET frame == IF polarisation_frame.none
                   THEN correlate_polarisation(config.receptor_frame)
                   ELSE polarisation_frame.v
          baselines == generate_baselines(nants(config))
          nbaselines == Len(baselines)
          Above(ha) == elevation_limit.none \/ Elevation(ha) > elevation_limit.v
          kept == SelectSeq(times, Above)
          ntimes == Len(kept)
      IN IF ntimes = 0 THEN Raise("ValueError", None)
         ELSE
           LET npol == Len(PolarisationNames(frame))
               nchan == Len(frequency)
               visshape == <<ntimes, nbaselines, nchan, npol>>
               rvis == Full(visshape, 0)
               rflags == [shape |-> visshape,
                          data |-> [i \in Idx(visshape) |->
                             BaselineFlag(baselines[i[2]][1], baselines[i[2]][2])]]
               rweight == [shape |-> visshape,
                           data |-> [i \in Idx(visshape) |->
                              BaselineWeight(baselines[i[2]][1],
                                             baselines[i[2]][2], weight)]]
               rtimes == [i \in 1..ntimes |-> TimeOf(kept[i])]
               between == [i \in 1..ntimes |->
                             IF i > 1 THEN rtimes[i] - rtimes[i - 1] ELSE 0]
               rintegrationtime ==
                   [i \in 1..ntimes |->
                       IF i > 1 THEN between[i]
                       ELSE IF ntimes > 1 THEN between[2] ELSE integration_time]
               uvwshape == <<ntimes, nbaselines, 3>>
               ruvw == [shape |-> uvwshape,
                        data |-> [i \in Idx(uvwshape) |->
                           LET ant_pos == xyz_to_uvw(config.xyz, kept[i[1]])
                               a1 == baselines[i[2]][1]
                               a2 == baselines[i[2]][2]
                           IN IF zerow /\ i[3] = 3 THEN 0
                              ELSE Sub3(ant_pos[a2 + 1], ant_pos[a1 + 1])[i[3]]]]
           IN Visibility_constructor(
                 frequency, channel_bandwidth, phasecentre, config, ruvw,
                 rtimes, rvis, Some(rweight), Some(rintegrationtime), rflags,
                 baselines, frame, "unknown")

\* faulty variant: the phase centre is not checked
create_visibility_NoCheck(config, times, frequency, phasecentre, channel_bandwidth, weight, polarisation_frame, integration_time, zerow, elevation_limit) ==
    create_visibility_body(config, times, frequency, phasecentre,
                           channel_bandwidth, weight, polarisation_frame,
                           integration_time, zerow, elevation_limit)

\* create_visibility: lines 78-79, then the rest
create_visibility(config, times, frequency, phasecentre, channel_bandwidth, weight, polarisation_frame, integration_time, zerow, elevation_limit) ==
    IF phasecentre.none THEN Raise("ValueError", None)
    ELSE create_visibility_body(config, times, frequency, phasecentre,
                                channel_bandwidth, weight, polarisation_frame,
                                integration_time, zerow, elevation_limit)

\* what a create_visibility call reports: the message of the exception it
\* raises (lines 79, 121-124), else the record it logs (lines 126-135),
\* with the numbers the message is formatted with
create_visibility_report(times, phasecentre, elevation_limit) ==
    LET Above(ha) == elevation_limit.none \/ Elevation(ha) > elevation_limit.v
        ntimes == Len(SelectSeq(times, Above))
        n_flagged == Len(times) - ntimes
    IN IF phasecentre.none
       THEN [by |-> "ValueError", message |-> "Must specify phase centre",
             numbers |-> <<>>]
       ELSE IF ntimes = 0
       THEN [by |-> "ValueError",
             message |-> "No targets above elevation_limit; all points are flagged",
             numbers |-> <<>>]
       ELSE IF ~elevation_limit.none /\ n_flagged > 0
       THEN [by |-> "log.info",
             message |-> "create_visibility: flagged %d/%d times below elevation limit %f (rad)",
             numbers |-> <<n_flagged, ntimes, elevation_limit.v>>]
       ELSE [by |-> "log.debug",
             message |-> "create_visibility: created %d times",
             numbers |-> <<ntimes>>]

\* ------------------------------------------------------------ accessors
\* faulty variant: the one-channel broadcast is used whatever the number of
\* channels
ComputeUvwLambdaFirstChannel(c) ==
    LET shape == <<Len(c.time), Len(c.baselines), Len(c.frequency), 3>>
    IN [shape |-> shape,
        data |-> [i \in Idx(shape) |->
                    c.uvw.data[<<i[1], i[2], i[4]>>] * c.frequency[1]]]

\* visibility_acc.uvw_lambda, getter: uvw * frequency / c, computed when
\* the memo is None; frequencies are counted in units of c Hz
ComputeUvwLambda(c) ==
    LET shape == <<Len(c.time), Len(c.baselines), Len(c.frequency), 3>>
    IN IF Len(c.frequency) = 1
       THEN [shape |-> shape,
             data |-> [i \in Idx(shape) |->
                         c.uvw.data[<<i[1], i[2], i[4]>>] * c.frequency[1]]]
       ELSE [shape |-> shape,
             data |-> [i \in Idx(shape) |->
                         c.uvw.data[<<i[1], i[2], i[4]>>] * c.frequency[i[3]]]]

\* faulty variant: the value is computed at every read
uvw_lambda_Recomputed(c) == ComputeUvwLambda(c)

uvw_lambda(c) == IF c.uvw_lambda.none THEN ComputeUvwLambda(c) ELSE c.uvw_lambda.v

\* faulty variant: the setter takes any value
uvw_lambda_setter_NoCheck(c, new_value) ==
    Ok(Some([c EXCEPT !.uvw_lambda = Some(new_value)]))

\* visibility_acc.uvw_lambda = new_value
uvw_lambda_setter(c, new_value) ==
    IF new_value.shape # <<Len(c.time), Len(c.baselines), Len(c.frequency), 3>>
    THEN Raise("ValueError", None)
    ELSE Ok(Some([c EXCEPT !.uvw_lambda = Some(new_value)]))

\* faulty variant: the flags are not applied
flagged_vis_Unmasked(c) == c.vis

\* visibility_acc.flagged_vis: vis * (1 - flags)
flagged_vis(c) ==
    [shape |-> c.vis.shape,
     data |-> [i \in DOMAIN c.vis.data |-> c.vis.data[i] * (1 - c.flags.data[i])]]

\* visibility_acc.flagged_weight: weight * (1 - flags)
flagged_weight(c) ==
    [shape |-> c.weight.shape,
     data |-> [i \in DOMAIN c.weight.data |->
                 c.weight.data[i] * (1 - c.flags.data[i])]]

\* numpy.hypot(u, v) >= bound and <= bound, on the squares
HypotGe(u, v, bound) == bound <= 0 \/ u * u + v * v >= bound * bound
HypotLe(u, v, bound) == bound >= 0 /\ u * u + v * v <= bound * bound

\* faulty variant: the flags of the samples inside the range are cleared
select_uv_range_Symmetric(c, uvmin, uvmax) ==
    LET lam == uvw_lambda(c)
        U(i) == lam.data[<<i[1], i[2], i[3], 1>>]
        V(i) == lam.data[<<i[1], i[2], i[3], 2>>]
        Outside(i) ==
            \/ ~uvmax.none /\ HypotGe(U(i), V(i), uvmax.v)
            \/ ~uvmin.none /\ HypotLe(U(i), V(i), uvmin.v)
    IN [c EXCEPT
          !.uvw_lambda = Some(lam),
          !.flags = [shape |-> c.flags.shape,
                     data |-> [i \in DOMAIN c.flags.data |->
                                 IF Outside(i) THEN 1 ELSE 0]]]

\* visibility_acc.select_uv_range(uvmin, uvmax): the container afterwards
\* (flags set in place, uvw_lambda memoised by the read)
select_uv_range(c, uvmin, uvmax) ==
    LET lam == uvw_lambda(c)
        U(i) == lam.data[<<i[1], i[2], i[3], 1>>]
        V(i) == lam.data[<<i[1], i[2], i[3], 2>>]
        Outside(i) ==
            \/ ~uvmax.none /\ HypotGe(U(i), V(i), uvmax.v)
            \/ ~uvmin.none /\ HypotLe(U(i), V(i), uvmin.v)
    IN [c EXCEPT
          !.uvw_lambda = Some(lam),
          !.flags = [shape |-> c.flags.shape,
                     data |-> [i \in DOMAIN c.flags.data |->
                                 IF Outside(i) THEN 1 ELSE c.flags.data[i]]]]

\* ------------------------------------------------------- select_r_range
RECURSIVE SumXyz(_, _)
SumXyz(xyz, n) ==
    IF n = 0 THEN <<0, 0, 0>>
    ELSE LET r == SumXyz(xyz, n - 1)
         IN <<r[1] + xyz[n][1], r[2] + xyz[n][2], r[3] + xyz[n][3]>>

\* squared distance of antenna a (1-based) from the centroid, times n^2:
\* xyz0 = xyz - xyz.mean("id"); r = sqrt(dot(xyz0, xyz0))
ScaledRadius2(xyz, a) ==
    LET n == Len(xyz)
        sum == SumXyz(xyz, n)
        d == <<n * xyz[a][1] - sum[1], n * xyz[a][2] - sum[2],
               n * xyz[a][3] - sum[3]>>
    IN d[1] * d[1] + d[2] * d[2] + d[3] * d[3]

\* config["radius"] > rmin and config["radius"] < rmax, on the squares
RadiusGt(xyz, a, bound) ==
    bound < 0 \/ ScaledRadius2(xyz, a) > (Len(xyz) * bound) * (Len(xyz) * bound)
RadiusLt(xyz, a, bound) ==
    bound > 0 /\ ScaledRadius2(xyz, a) < (Len(xyz) * bound) * (Len(xyz) * bound)

\* list(sub_config.id.data): the ids, ascending, of the antennas of config
\* that config.where(...) keeps
SelectedIds(config, rmin, rmax) ==
    LET Keep(id) ==
            /\ rmin.none \/ RadiusGt(config.xyz, id + 1, rmin.v)
            /\ rmax.none \/ RadiusLt(config.xyz, id + 1, rmax.v)
    IN SelectSeq([i \in 1..Len(config.xyz) |-> i - 1], Keep)

Range(seq) == {seq[i] : i \in DOMAIN seq}

\* the rows (1-based) of the baselines axis whose two antennas are in ids
SelectedRows(baselines, ids) ==
    SelectSeq([b \in 1..Len(baselines) |-> b],
              LAMBDA b : baselines[b][1] \in Range(ids)
                         /\ baselines[b][2] \in Range(ids))

\* an array restricted to the given rows of its baselines axis (axis 2)
TakeRows(a, rows) ==
    LET shape == [a.shape EXCEPT ![2] = Len(rows)]
    IN [shape |-> shape,
        data |-> [i \in Idx(shape) |-> a.data[[i EXCEPT ![2] = rows[i[2]]]]]]

\* faulty variant: uvw is left out of the selection
sel_baselines_KeepsUvw(c, rows) ==
    [c EXCEPT
       !.baselines = [k \in 1..Len(rows) |-> c.baselines[rows[k]]],
       !.vis = TakeRows(c.vis, rows),
       !.weight = TakeRows(c.weight, rows),
       !.flags = TakeRows(c.flags, rows),
       !.uvw_lambda = None]

\* self._obj.sel({"baselines": baselines}, drop=True): every variable with a
\* baselines axis is restricted to the rows; the result is a new object,
\* whose accessor has no memoised uvw_lambda
sel_baselines(c, rows) ==
    [c EXCEPT
       !.baselines = [k \in 1..Len(rows) |-> c.baselines[rows[k]]],
       !.vis = TakeRows(c.vis, rows),
       !.weight = TakeRows(c.weight, rows),
       !.flags = TakeRows(c.flags, rows),
       !.uvw = TakeRows(c.uvw, rows),
       !.uvw_lambda = None]

\* faulty variant: the baselines of the result are labelled by position,
\* 0 .. k-1, instead of by the retained ids
select_r_range_Renumbered(c, rmin, rmax) ==
    IF rmin.none /\ rmax.none THEN Ok(Some(c))
    ELSE LET ids == SelectedIds(c.configuration, rmin, rmax)
             rows == SelectedRows(c.baselines, ids)
             sub_bvis == [sel_baselines(c, rows) EXCEPT
                             !.imaging_weight = c.imaging_weight]
             labels == PairsOf([k \in 1..Len(ids) |-> k - 1])
         IN IF Len(labels) # Len(rows) THEN Raise("ValueError", None)
            ELSE Ok(Some([sub_bvis EXCEPT !.baselines = labels]))

\* visibility_acc.select_r_range(rmin, rmax). The result keeps the attrs
\* of the input, its configuration among them; sub_config is used for the
\* ids only. Assigning a baselines index whose length is not the length of
\* the baselines axis raises ValueError in xarray.
select_r_range(c, rmin, rmax) ==
    IF rmin.none /\ rmax.none THEN Ok(Some(c))
    ELSE LET ids == SelectedIds(c.configuration, rmin, rmax)
             rows == SelectedRows(c.baselines, ids)
             sub_bvis == [sel_baselines(c, rows) EXCEPT
                             !.imaging_weight = c.imaging_weight]
             labels == PairsOf(ids)
         IN IF Len(labels) # Len(rows) THEN Raise("ValueError", None)
            ELSE Ok(Some([sub_bvis EXCEPT !.baselines = labels]))

\* Visibility.copy(deep, data=None, zero): the new object
copy(c, deep, zero) ==
    [c EXCEPT !.vis = IF zero THEN Full(c.vis.shape, 0) ELSE @,
              !.uvw_lambda = None]

\* the object copy was called on, after the call: super().copy(deep=False)
\* gives new_vis the arrays of self (the same memory), so that with zero
\* the write new_vis["vis"].data[...] = 0.0 is a write into the vis array
\* of self as well; a deep copy has arrays of its own
copy_original(c, deep, zero) ==
    IF zero /\ ~deep THEN [c EXCEPT !.vis = Full(c.vis.shape, 0)] ELSE c

\* ------------------------------------------------------ SpecVis actions
NoVis == [none |-> TRUE, made |-> "", ops |-> {}]

\* a call without arguments
NoArgs == [none |-> TRUE]

\* no FlagTable has been made
NoFt == [none |-> TRUE]

NoVisOut == [op |-> "none", ok |-> TRUE, err |-> "", value |-> None, args |-> NoArgs]

Frequencies == {<<1>>, <<1, 2>>}

Ones(n) == [i \in 1..n |-> 1]

\* a caller's first call builds a container with create_visibility; vis is the
\* container the call returned, if any
CreateCall(config, times, frequency, phasecentre, polarisation_frame, zerow, elevation_limit) ==
    LET r == create_visibility(config, times, frequency, phasecentre,
                               Ones(Len(frequency)), 2, polarisation_frame,
                               1, zerow, elevation_limit)
    IN /\ visout.op = "none"
       /\ vis' = IF r.ok
                 THEN [none |-> FALSE, v |-> r.value.v,
                       made |-> "create_visibility", ops |-> {}]
                 ELSE NoVis
       /\ visout' = [op |-> "create_visibility", ok |-> r.ok, err |-> r.err,
                     value |-> r.value,
                     args |-> [phasecentre |-> phasecentre, times |-> times,
                               elevation_limit |-> elevation_limit,
                               weight |-> 2],
                     report |-> create_visibility_report(times, phasecentre,
                                                         elevation_limit)]
       /\ UNCHANGED <<hdfvars, ft>>

\* a caller's first call builds a container with Visibility.constructor from arrays of
\* ntimes times over the baselines of config; weight and integration_time
\* are left out, given with the right shape, or given with a wrong one;
\* wrong names another array given with a wrong shape, if any
ConstructCall(config, ntimes, frequency, phasecentre, weight_given, integration_time_given, wrong) ==
    LET baselines == generate_baselines(nants(config))
        frame == correlate_polarisation(config.receptor_frame)
        shape == <<ntimes, Len(baselines), Len(frequency),
                   Len(PolarisationNames(frame))>>
        larger == [shape EXCEPT ![2] = @ + 1]
        time == [i \in 1..ntimes |-> TimeOf(i)]
        weight == CASE weight_given = "no" -> None
                    [] weight_given = "right" -> Some(Full(shape, 2))
                    [] weight_given = "wrong" -> Some(Full(larger, 2))
        integration_time ==
            CASE integration_time_given = "no" -> None
              [] integration_time_given = "right" -> Some([i \in 1..ntimes |-> 5])
              [] integration_time_given = "wrong" -> Some([i \in 1..(ntimes + 1) |-> 5])
        flags == Full(IF wrong = "flags" THEN larger ELSE shape, 0)
        uvwshape == <<ntimes, Len(baselines) + (IF wrong = "uvw" THEN 1 ELSE 0), 3>>
        uvw == Full(uvwshape, 7)
        r == Visibility_constructor(frequency, Ones(Len(frequency)),
                                    phasecentre, config, uvw, time,
                                    Full(shape, 1), weight, integration_time,
                                    flags, baselines, frame, "anonymous")
    IN /\ visout.op = "none"
       /\ vis' = IF r.ok
                 THEN [none |-> FALSE, v |-> r.value.v,
                       made |-> "constructor", ops |-> {}]
                 ELSE NoVis
       /\ visout' = [op |-> "constructor", ok |-> r.ok, err |-> r.err,
                     value |-> r.value,
                     args |-> [phasecentre |-> phasecentre,
                               visshape |-> shape, ntimes |-> ntimes,
                               weight |-> weight,
                               integration_time |-> integration_time,
                               wrong |-> wrong]]
       /\ UNCHANGED <<hdfvars, ft>>

\* vis.visibility_acc.select_uv_range(uvmin, uvmax), in place: the flags
\* are written into the array that holds them, which a FlagTable made from
\* vis holds as well
SelectUvRangeCall(uvmin, uvmax) ==
    /\ ~vis.none
    /\ vis' = [vis EXCEPT !.v = select_uv_range(vis.v, uvmin, uvmax),
                          !.ops = @ \cup {"select_uv_range"}]
    /\ visout' = [op |-> "select_uv_range", ok |-> TRUE, err |-> "",
                  value |-> None,
                  args |-> [uvmin |-> uvmin, uvmax |-> uvmax]]
    /\ ft' = IF ft.none THEN ft
             ELSE [ft EXCEPT !.v.flags = SharedWrite(@, vis'.v.flags)]
    /\ UNCHANGED hdfvars

\* vis = vis.visibility_acc.select_r_range(rmin, rmax)
SelectRRangeCall(rmin, rmax) ==
    /\ ~vis.none
    /\ LET r == select_r_range(vis.v, rmin, rmax)
       IN /\ vis' = IF r.ok
                    THEN [vis EXCEPT !.v = r.value.v,
                                     !.ops = @ \cup {"select_r_range"}]
                    ELSE vis
          /\ visout' = [op |-> "select_r_range", ok |-> r.ok, err |-> r.err,
                        value |-> None,
                        args |-> [rmin |-> rmin, rmax |-> rmax,
                                  nbaselines |-> Len(vis.v.baselines)]]
    /\ UNCHANGED <<hdfvars, ft>>

\* original = vis; vis = original.copy(deep, zero=zero): vis is the copy
\* from now on, and the value recorded is the original after the call
CopyCall(deep, zero) ==
    /\ ~vis.none
    /\ vis' = [vis EXCEPT !.v = copy(vis.v, deep, zero),
                          !.ops = @ \cup {"copy"}]
    /\ visout' = [op |-> "copy", ok |-> TRUE, err |-> "",
                  value |-> Some(copy_original(vis.v, deep, zero)),
                  args |-> [deep |-> deep, zero |-> zero]]
    /\ UNCHANGED <<hdfvars, ft>>

InitVis ==
    /\ vis = NoVis
    /\ visout = NoVisOut
    /\ ft = NoFt
    /\ file = NoFile
    /\ arg = NoArg
    /\ origin = [by |-> "none", type |-> "", ok |-> TRUE]
    /\ outcome = NoOutcome
    /\ prevGroups = 0

Given == {"no", "right", "wrong"}

NextVis ==
    \/ \E config \in Configurations, times \in SeqsUpTo(HourAngles, MaxTimes),
          frequency \in Frequencies, with_phasecentre \in BOOLEAN,
          elevation_limit \in {None, Some(15)} :
            CreateCall(config, times, frequency,
                       IF with_phasecentre THEN Some(PhaseCentre) ELSE None,
                       None, FALSE, elevation_limit)
    \/ \E config \in {ConfigB}, ntimes \in 1..MaxTimes,
          frequency \in Frequencies, with_phasecentre \in BOOLEAN,
          w \in Given, it \in Given, wrong \in {"none", "flags", "uvw"} :
            ConstructCall(config, ntimes, frequency,
                          IF with_phasecentre THEN Some(PhaseCentre) ELSE None,
                          w, it, wrong)
    \/ \E uvmin \in {None, Some(5)}, uvmax \in {None, Some(20)} :
            SelectUvRangeCall(uvmin, uvmax)
    \/ \E rmin \in {None, Some(13), Some(50)}, rmax \in {None, Some(26)} :
            SelectRRangeCall(rmin, rmax)
    \/ \E deep \in BOOLEAN, zero \in BOOLEAN : CopyCall(deep, zero)

SpecVis == InitVis /\ [][NextVis]_vars

\* ------------------------------------------------------ SpecAcc actions
\* the accessor properties of one Visibility object: its uvw_lambda memo,
\* the flagged views, and the in-place changes between their reads

\* value = vis.visibility_acc.uvw_lambda
UvwLambdaRead ==
    /\ ~vis.none
    /\ LET lam == uvw_lambda(vis.v)
       IN /\ vis' = [vis EXCEPT !.v.uvw_lambda = Some(lam)]
          /\ visout' = [op |-> "uvw_lambda", ok |-> TRUE, err |-> "",
                        value |-> Some(lam), args |-> NoArgs]
    /\ UNCHANGED <<hdfvars, ft>>

\* vis.visibility_acc.uvw_lambda = new_value, an array of nines whose
\* channel axis has extra more entries than the frequency axis
UvwLambdaSet(extra) ==
    /\ ~vis.none
    /\ LET new_value == Full(<<Len(vis.v.time), Len(vis.v.baselines),
                               Len(vis.v.frequency) + extra, 3>>, 9)
           r == uvw_lambda_setter(vis.v, new_value)
       IN /\ vis' = IF r.ok THEN [vis EXCEPT !.v = r.value.v] ELSE vis
          /\ visout' = [op |-> "uvw_lambda_setter", ok |-> r.ok,
                        err |-> r.err, value |-> None,
                        args |-> [new_value |-> new_value]]
    /\ UNCHANGED <<hdfvars, ft>>

\* vis["uvw"].data[...] = k: the caller overwrites uvw in place
UvwMutate(k) ==
    /\ ~vis.none
    /\ vis' = [vis EXCEPT !.v.uvw = Full(vis.v.uvw.shape, k)]
    /\ visout' = [op |-> "uvw", ok |-> TRUE, err |-> "", value |-> None,
                  args |-> [k |-> k]]
    /\ UNCHANGED <<hdfvars, ft>>

\* fv = vis.visibility_acc.flagged_vis; fw = vis.visibility_acc.flagged_weight
FlaggedRead ==
    /\ ~vis.none
    /\ vis' = vis
    /\ visout' = [op |-> "flagged", ok |-> TRUE, err |-> "",
                  value |-> Some([flagged_vis |-> flagged_vis(vis.v),
                                  flagged_weight |-> flagged_weight(vis.v)]),
                  args |-> NoArgs]
    /\ UNCHANGED <<hdfvars, ft>>

InitAcc ==
    /\ vis = NoVis
    /\ visout = NoVisOut
    /\ ft = NoFt
    /\ file = NoFile
    /\ arg = NoArg
    /\ origin = [by |-> "none", type |-> "", ok |-> TRUE]
    /\ outcome = NoOutcome
    /\ prevGroups = 0

NextAcc ==
    \/ \E config \in Configurations, times \in SeqsUpTo({1, 2}, MaxTimes),
          frequency \in Frequencies :
            CreateCall(config, times, frequency, Some(PhaseCentre), None,
                       FALSE, None)
    \/ \E frequency \in Frequencies, w \in {"no", "right"} :
            ConstructCall(ConfigB, 1, frequency, Some(PhaseCentre), w, "no",
                          "none")
    \/ UvwLambdaRead
    \/ \E extra \in {0, 1} : UvwLambdaSet(extra)
    \/ UvwMutate(3)
    \/ \E uvmin \in {None, Some(5)}, uvmax \in {None, Some(20)} :
            SelectUvRangeCall(uvmin, uvmax)
    \/ FlaggedRead

SpecAcc == InitAcc /\ [][NextAcc]_vars

\* ------------------------------------------------------- SpecIw actions
\* the legacy imaging weight of a Visibility, through the selections and
\* copies that hand it on

\* Visibility.imaging_weight, getter: the field is set from the weight
\* when it is None
imaging_weight(c) == IF c.imaging_weight.none THEN c.weight ELSE c.imaging_weight.v

\* Visibility.imaging_weight = new_img_weight
imaging_weight_setter(c, new_img_weight) ==
    IF new_img_weight.shape # c.weight.shape
    THEN Raise("ValueError", None)
    ELSE Ok(Some([c EXCEPT !.imaging_weight = Some(new_img_weight)]))

\* value = vis.imaging_weight
ImagingWeightRead ==
    /\ ~vis.none
    /\ LET w == imaging_weight(vis.v)
       IN /\ vis' = [vis EXCEPT !.v.imaging_weight = Some(w)]
          /\ visout' = [op |-> "imaging_weight", ok |-> TRUE, err |-> "",
                        value |-> Some(w), args |-> NoArgs]
    /\ UNCHANGED <<hdfvars, ft>>

\* vis.imaging_weight = an array of fours whose baselines axis has extra
\* more rows than that of vis
ImagingWeightSet(extra) ==
    /\ ~vis.none
    /\ LET new_value == Full([vis.v.weight.shape EXCEPT ![2] = @ + extra], 4)
           r == imaging_weight_setter(vis.v, new_value)
       IN /\ vis' = IF r.ok THEN [vis EXCEPT !.v = r.value.v] ELSE vis
          /\ visout' = [op |-> "imaging_weight_setter", ok |-> r.ok,
                        err |-> r.err, value |-> None,
                        args |-> [new_value |-> new_value]]
    /\ UNCHANGED <<hdfvars, ft>>

InitIw ==
    /\ vis = NoVis
    /\ visout = NoVisOut
    /\ ft = NoFt
    /\ file = NoFile
    /\ arg = NoArg
    /\ origin = [by |-> "none", type |-> "", ok |-> TRUE]
    /\ outcome = NoOutcome
    /\ prevGroups = 0

NextIw ==
    \/ \E config \in Configurations, times \in SeqsUpTo({1}, MaxTimes),
          frequency \in Frequencies :
            CreateCall(config, times, frequency, Some(PhaseCentre), None,
                       FALSE, None)
    \/ ImagingWeightRead
    \/ \E extra \in {0, 1} : ImagingWeightSet(extra)
    \/ \E rmin \in {None, Some(13)}, rmax \in {None, Some(26)} :
            SelectRRangeCall(rmin, rmax)
    \/ \E deep \in BOOLEAN, zero \in BOOLEAN : CopyCall(deep, zero)

SpecIw == InitIw /\ [][NextIw]_vars

\* ------------------------------------------------------------ FlagTable
\* vis.flags: the DataArray of the flags variable, i.e. the array itself
\* (no copy) with the coordinates of its dimensions
flags_of(c) ==
    [shape |-> c.flags.shape, data |-> c.flags.data, buffer |-> "vis.flags",
     baselines |-> c.baselines]

\* FlagTable.constructor(baselines, flags, frequency, channel_bandwidth,
\* configuration, time, integration_time, polarisation_frame); flags is a
\* DataArray. xarray.DataArray(flags, dims=...) wraps the array of flags
\* without copying it and keeps its coordinates; with baselines=None the
\* baselines index the flags carry is the one the Dataset gets. Data
\* variables whose lengths disagree with the coordinates raise ValueError.
FlagTable_constructor(baselines, flags, frequency, channel_bandwidth, configuration, time, integration_time, polarisation_frame) ==
    LET names == PolarisationNames(polarisation_frame)
        bl == IF baselines.none THEN flags.baselines ELSE baselines.v
    IN IF \/ flags.shape # <<Len(time), Len(bl), Len(frequency), Len(names)>>
          \/ Len(integration_time) # Len(time)
          \/ Len(channel_bandwidth) # Len(frequency)
       THEN Raise("ValueError", None)
       ELSE Ok(Some(
          [time |-> time, baselines |-> bl, frequency |-> frequency,
           polarisation |-> names,
           flags |-> [shape |-> flags.shape, data |-> flags.data,
                      buffer |-> flags.buffer],
           integration_time |-> integration_time,
           channel_bandwidth |-> channel_bandwidth,
           datetime |-> datetime64(time),
           data_model |-> "FlagTable",
           polarisation_frame |-> polarisation_frame,
           configuration |-> configuration]))

\* faulty variant: the FlagTable starts from an array of zeros
create_flagtable_from_visibility_FreshFlags(c) ==
    FlagTable_constructor(None,
                          [flags_of(c) EXCEPT !.data = [i \in DOMAIN @ |-> 0],
                                              !.buffer = "own"],
                          c.frequency, c.channel_bandwidth, c.configuration,
                          c.time, c.integration_time, c.polarisation_frame)

\* create_flagtable_from_visibility(vis)
create_flagtable_from_visibility(c) ==
    FlagTable_constructor(None, flags_of(c), c.frequency,
                          c.channel_bandwidth, c.configuration, c.time,
                          c.integration_time, c.polarisation_frame)

\* FlagTable.copy(deep, data=None, zero). super().copy(deep) gives the new
\* object, on the same memory unless deep; with zero the next statement
\* reads new_ft.data, and a Dataset has no attribute, variable or
\* coordinate of that name: AttributeError
FlagTable_copy(f, deep, zero) ==
    LET new_ft == [f EXCEPT !.flags.buffer = IF deep THEN "own" ELSE @]
    IN IF zero THEN Raise("AttributeError", None)
       ELSE Ok(Some(new_ft))

\* --------------------------------------------------- quality assessment
Abs(x) == IF x < 0 THEN -x ELSE x

\* numpy.abs(a), elementwise
AbsArray(a) == [i \in DOMAIN a.data |-> Abs(a.data[i])]

RECURSIVE SumOver(_, _)
SumOver(f, S) ==
    IF S = {} THEN 0
    ELSE LET i == CHOOSE j \in S : TRUE
         IN f[i] + SumOver(f, S \ {i})

\* numpy.sum, numpy.max, numpy.min over all the elements
NpSum(f) == SumOver(f, DOMAIN f)
NpMax(f) == CHOOSE x \in {f[i] : i \in DOMAIN f} : \A i \in DOMAIN f : f[i] <= x
NpMin(f) == CHOOSE x \in {f[i] : i \in DOMAIN f} : \A i \in DOMAIN f : f[i] >= x

\* the k-th smallest element, k from 1
KthSmallest(f, k) ==
    CHOOSE x \in {f[i] : i \in DOMAIN f} :
        /\ Cardinality({i \in DOMAIN f : f[i] < x}) < k
        /\ Cardinality({i \in DOMAIN f : f[i] <= x}) >= k

\* numpy.median: the middle element, or the mean of the two middle ones,
\* as the fraction num / den
NpMedian(f) ==
    LET n == Cardinality(DOMAIN f)
    IN [num |-> KthSmallest(f, (n + 1) \div 2) + KthSmallest(f, (n + 2) \div 2),
        den |-> 2]

\* numpy.mean, as the fraction num / den
NpMean(f) == [num |-> NpSum(f), den |-> Cardinality(DOMAIN f)]

\* numpy.std, the square root of the variance: given by the variance, as
\* the fraction num / den
NpStd(f) ==
    LET n == Cardinality(DOMAIN f)
        sum == NpSum(f)
        sumsq == NpSum([i \in DOMAIN f |-> f[i] * f[i]])
    IN [variance |-> [num |-> n * sumsq - sum * sum, den |-> n * n]]

\* visibility_acc.qa_visibility(context).data
qa_visibility(c) ==
    LET avis == AbsArray(c.vis)
    IN [maxabs |-> NpMax(avis), minabs |-> NpMin(avis), rms |-> NpStd(avis),
        medianabs |-> NpMedian(avis)]

\* flagtable_acc.qa_flag_table(context).data
qa_flag_table(f) ==
    LET aflags == AbsArray(f.flags)
    IN [maxabs |-> NpMax(aflags), minabs |-> NpMin(aflags),
        mean |-> NpMean(aflags), sum |-> NpSum(aflags),
        medianabs |-> NpMedian(aflags)]

\* ------------------------------------------------------- SpecFt actions
\* a Visibility, the FlagTable made from it, and what is done to either

\* ft = create_flagtable_from_visibility(vis)
CreateFlagTableCall ==
    /\ ~vis.none
    /\ LET r == create_flagtable_from_visibility(vis.v)
       IN /\ ft' = IF r.ok THEN [none |-> FALSE, v |-> r.value.v] ELSE NoFt
          /\ visout' = [op |-> "create_flagtable_from_visibility",
                        ok |-> r.ok, err |-> r.err, value |-> None,
                        args |-> NoArgs]
    /\ UNCHANGED <<hdfvars, vis>>

\* ft["flags"].data[...] = k: the caller overwrites the flags of the
\* FlagTable in place
FlagTableFill(k) ==
    /\ ~ft.none
    /\ ft' = [ft EXCEPT !.v.flags.data = [i \in DOMAIN @ |-> k]]
    /\ vis' = IF ft.v.flags.buffer = "vis.flags"
              THEN [vis EXCEPT !.v.flags = Full(@.shape, k)]
              ELSE vis
    /\ visout' = [op |-> "flags_fill", ok |-> TRUE, err |-> "",
                  value |-> None, args |-> [k |-> k]]
    /\ UNCHANGED hdfvars

\* ft = ft.copy(deep, zero=zero)
FlagTableCopyCall(deep, zero) ==
    /\ ~ft.none
    /\ LET r == FlagTable_copy(ft.v, deep, zero)
       IN /\ ft' = IF r.ok THEN [ft EXCEPT !.v = r.value.v] ELSE ft
          /\ visout' = [op |-> "flagtable_copy", ok |-> r.ok, err |-> r.err,
                        value |-> None,
                        args |-> [deep |-> deep, zero |-> zero]]
    /\ UNCHANGED <<hdfvars, vis>>

\* qa = vis.visibility_acc.qa_visibility()
QaVisibilityCall ==
    /\ ~vis.none
    /\ visout' = [op |-> "qa_visibility", ok |-> TRUE, err |-> "",
                  value |-> Some(qa_visibility(vis.v)), args |-> NoArgs]
    /\ UNCHANGED <<hdfvars, vis, ft>>

\* qa = ft.flagtable_acc.qa_flag_table()
QaFlagTableCall ==
    /\ ~ft.none
    /\ visout' = [op |-> "qa_flag_table", ok |-> TRUE, err |-> "",
                  value |-> Some(qa_flag_table(ft.v)), args |-> NoArgs]
    /\ UNCHANGED <<hdfvars, vis, ft>>

InitFt ==
    /\ vis = NoVis
    /\ visout = NoVisOut
    /\ ft = NoFt
    /\ file = NoFile
    /\ arg = NoArg
    /\ origin = [by |-> "none", type |-> "", ok |-> TRUE]
    /\ outcome = NoOutcome
    /\ prevGroups = 0

NextFt ==
    \/ \E config \in Configurations, times \in SeqsUpTo({1}, MaxTimes),
          frequency \in Frequencies :
            CreateCall(config, times, frequency, Some(PhaseCentre), None,
                       FALSE, None)
    \/ \E frequency \in Frequencies :
            ConstructCall(ConfigB, 1, frequency, Some(PhaseCentre), "no",
                          "no", "none")
    \/ \E uvmin \in {None, Some(5)}, uvmax \in {None, Some(20)} :
            SelectUvRangeCall(uvmin, uvmax)
    \/ CreateFlagTableCall
    \/ \E k \in {0, 1} : FlagTableFill(k)
    \/ \E deep \in BOOLEAN, zero \in BOOLEAN : FlagTableCopyCall(deep, zero)
    \/ QaVisibilityCall
    \/ QaFlagTableCall

SpecFt == InitFt /\ [][NextFt]_vars

\* ------------------------------------------------------------ claims
\* a Visibility.constructor call was given a weight of another shape than
\* vis, or an integration_time of another length than time
BadWeight == ~visout.args.weight.none /\ visout.args.weight.v.shape # visout.args.visshape
BadIntegrationTime ==
    /\ ~visout.args.integration_time.none
    /\ Len(visout.args.integration_time.v) # visout.args.ntimes

\* C7: Visibility.constructor called with a weight whose shape differs from
\* that of vis, or with an integration_time whose length differs from that
\* of time, raises (AssertionError) and produces no container; called
\* without a weight and otherwise consistent arrays it succeeds with a
\* weight that is all ones in the shape of vis, and called without an
\* integration_time it succeeds with an integration_time of ntimes ones.
C7_ConstructorShapeChecks ==
    visout.op = "constructor" =>
      /\ (BadWeight \/ BadIntegrationTime) =>
            /\ ~visout.ok
            /\ visout.err = "AssertionError"
            /\ visout.value.none
            /\ vis.none
      /\ (~BadWeight /\ ~BadIntegrationTime /\ visout.args.wrong = "none") =>
            /\ visout.ok
            /\ ~vis.none
            /\ visout.args.weight.none =>
                  vis.v.weight = Full(visout.args.visshape, 1)
            /\ visout.args.integration_time.none =>
                  vis.v.integration_time = Ones(visout.args.ntimes)

C7_Witness ==
    /\ visout.op = "constructor"
    /\ visout.args.wrong = "none"
    /\ BadWeight
    /\ visout.args.integration_time.none
    /\ visout.err = "AssertionError"

C9_ShapesAgree ==
    ~vis.none =>
      LET c == vis.v
          shape == <<Len(c.time), Len(c.baselines), Len(c.frequency),
                     Len(c.polarisation)>>
          uvwshape == <<Len(c.time), Len(c.baselines), 3>>
      IN /\ c.vis.shape = shape /\ DOMAIN c.vis.data = Idx(shape)
         /\ c.weight.shape = shape /\ DOMAIN c.weight.data = Idx(shape)
         /\ c.flags.shape = shape /\ DOMAIN c.flags.data = Idx(shape)
         /\ c.uvw.shape = uvwshape /\ DOMAIN c.uvw.data = Idx(uvwshape)
         /\ Len(c.integration_time) = Len(c.time)

C9_Witness ==
    /\ ~vis.none
    /\ vis.ops = {"select_uv_range", "select_r_range", "copy"}
    /\ visout.op = "select_r_range"
    /\ visout.ok
    /\ Len(vis.v.baselines) < visout.args.nbaselines

\* C10 as stated: in every container reached from create_visibility by
\* select_r_range calls alone, the baseline axis has nants * (nants + 1) / 2
\* entries, nants being the number of antennas of the configuration the
\* container references.
C10_BaselinesMatchConfiguration ==
    (~vis.none /\ vis.made = "create_visibility"
        /\ vis.ops \subseteq {"select_r_range"}) =>
      LET n == nants(vis.v.configuration)
      IN Len(vis.v.baselines) = (n * (n + 1)) \div 2

\* the antennas named by a sequence of baseline labels
AntennasOf(baselines) ==
    {baselines[b][1] : b \in DOMAIN baselines} \cup {baselines[b][2] : b \in DOMAIN baselines}

\* (a1, a2) comes before (b1, b2) in lexicographic order
LexLess(p, q) == p[1] < q[1] \/ (p[1] = q[1] /\ p[2] < q[2])

\* the baseline labels are exactly the pairs a1 <= a2 over their antennas,
\* each once, in lexicographic order
CanonicalBaselines(baselines) ==
    LET ants == AntennasOf(baselines)
        n == Cardinality(ants)
    IN /\ Len(baselines) = (n * (n + 1)) \div 2
       /\ \A b \in DOMAIN baselines : baselines[b][1] <= baselines[b][2]
       /\ \A b \in 1..(Len(baselines) - 1) : LexLess(baselines[b], baselines[b + 1])
       /\ \A a1 \in ants, a2 \in ants :
             a1 <= a2 => \E b \in DOMAIN baselines : baselines[b] = <<a1, a2>>

\* C11: the baselines of a create_visibility result, and of what one
\* select_r_range call makes of it, are the pairs a1 <= a2 over their
\* antennas, each once, in lexicographic order (n antennas, n(n+1)/2 pairs);
\* the call succeeds, and row i of its result holds the data of the i-th
\* retained row of the input under the label that row had in the input.
C11_BaselineRule ==
    [][(~vis.none /\ vis.made = "create_visibility" /\ vis.ops = {}
          /\ visout'.op = "select_r_range") =>
         LET c == vis.v
             rows == SelectedRows(c.baselines,
                        SelectedIds(c.configuration, visout'.args.rmin,
                                    visout'.args.rmax))
         IN /\ CanonicalBaselines(c.baselines)
            /\ Len(c.baselines) = (nants(c.configuration) * (nants(c.configuration) + 1)) \div 2
            /\ visout'.ok
            /\ CanonicalBaselines(vis'.v.baselines)
            /\ Len(vis'.v.baselines) = Len(rows)
            /\ vis'.v.uvw = TakeRows(c.uvw, rows)
            /\ vis'.v.weight = TakeRows(c.weight, rows)
            /\ \A i \in DOMAIN rows : vis'.v.baselines[i] = c.baselines[rows[i]]
      ]_vars

C11_Witness ==
    /\ ~vis.none
    /\ vis.made = "create_visibility"
    /\ vis.ops = {"select_r_range"}
    /\ visout.op = "select_r_range"
    /\ visout.ok
    /\ vis.v.baselines = <<<<0, 0>>, <<0, 2>>, <<2, 2>>>>

\* the square of the projected (u, v) radius, in wavelengths, of sample
\* i = (time, baseline, channel, polarisation) of container c
UvRadius2(c, i) ==
    LET lam == uvw_lambda(c)
        u == lam.data[<<i[1], i[2], i[3], 1>>]
        v == lam.data[<<i[1], i[2], i[3], 2>>]
    IN u * u + v * v

\* C12 as stated: select_uv_range(uvmin, uvmax) sets the flag, for every
\* polarisation, of exactly the samples whose uv radius is below uvmin or
\* above uvmax; a sample whose radius is inside [uvmin, uvmax], the two ends
\* included, keeps the flag it had.
C12_FlagsOutsideClosedInterval ==
    [][(~vis.none /\ visout'.op = "select_uv_range") =>
         \A i \in DOMAIN vis.v.flags.data :
            LET uvmin == visout'.args.uvmin
                uvmax == visout'.args.uvmax
                r2 == UvRadius2(vis.v, i)
                outside == \/ ~uvmax.none /\ r2 > uvmax.v * uvmax.v
                           \/ ~uvmin.none /\ r2 < uvmin.v * uvmin.v
            IN vis'.v.flags.data[i] = IF outside THEN 1 ELSE vis.v.flags.data[i]
      ]_vars

\* C13: a select_uv_range call, whatever its bounds and whatever calls came
\* before, leaves every flag that is 1 at 1, leaves the flags in {0, 1} and
\* leaves vis, weight, uvw and the axes as they were; a call with the bounds
\* of the call before it leaves the flags as that call left them.
C13_FlagsOnlyAdded ==
    [][(~vis.none /\ visout'.op = "select_uv_range") =>
         /\ DOMAIN vis'.v.flags.data = DOMAIN vis.v.flags.data
         /\ \A i \in DOMAIN vis.v.flags.data :
               /\ vis.v.flags.data[i] = 1 => vis'.v.flags.data[i] = 1
               /\ vis'.v.flags.data[i] \in {0, 1}
         /\ vis'.v.vis = vis.v.vis
         /\ vis'.v.weight = vis.v.weight
         /\ vis'.v.uvw = vis.v.uvw
         /\ vis'.v.time = vis.v.time
         /\ vis'.v.baselines = vis.v.baselines
         /\ vis'.v.frequency = vis.v.frequency
         /\ vis'.v.polarisation = vis.v.polarisation
         /\ vis'.v.integration_time = vis.v.integration_time
         /\ (visout.op = "select_uv_range" /\ visout.args = visout'.args) =>
               vis'.v.flags = vis.v.flags
      ]_vars

C13_Witness ==
    /\ ~vis.none
    /\ visout.op = "select_uv_range"
    /\ visout.args.uvmin.none
    /\ visout.args.uvmax.none
    /\ \E i \in DOMAIN vis.v.flags.data : vis.v.flags.data[i] = 1
    /\ \E i \in DOMAIN vis.v.flags.data : vis.v.flags.data[i] = 0

\* antenna id of configuration config lies at a distance r from the
\* centroid with rmin <= r <= rmax, an unset bound imposing no limit
WithinClosedRange(config, id, rmin, rmax) ==
    LET n == Len(config.xyz)
        r2 == ScaledRadius2(config.xyz, id + 1)
    IN /\ rmin.none \/ rmin.v <= 0 \/ r2 >= (n * rmin.v) * (n * rmin.v)
       /\ rmax.none \/ (rmax.v >= 0 /\ r2 <= (n * rmax.v) * (n * rmax.v))

\* C14 as stated: select_r_range with both bounds unset returns its input
\* unchanged; otherwise it succeeds and its result holds exactly the
\* baselines of the input whose two antennas both lie at a distance r with
\* rmin <= r <= rmax from the centroid, the two ends included.
C14_ClosedRadiusRange ==
    [][(~vis.none /\ visout'.op = "select_r_range") =>
         LET rmin == visout'.args.rmin
             rmax == visout'.args.rmax
             c == vis.v
             kept == SelectSeq(c.baselines,
                        LAMBDA bl :
                           /\ WithinClosedRange(c.configuration, bl[1], rmin, rmax)
                           /\ WithinClosedRange(c.configuration, bl[2], rmin, rmax))
         IN IF rmin.none /\ rmax.none
            THEN visout'.ok /\ vis'.v = vis.v
            ELSE visout'.ok /\ vis'.v.baselines = kept
      ]_vars

\* C15: a select_r_range call that follows a successful select_r_range call
\* with the same bounds succeeds and returns a container with the same
\* baselines, and the same data, as the first call returned.
C15_SelectRRangeIdempotent ==
    [][(~vis.none /\ visout.op = "select_r_range" /\ visout.ok
          /\ visout'.op = "select_r_range"
          /\ visout'.args.rmin = visout.args.rmin
          /\ visout'.args.rmax = visout.args.rmax) =>
         /\ visout'.ok
         /\ vis'.v.baselines = vis.v.baselines
         /\ AntennasOf(vis'.v.baselines) = AntennasOf(vis.v.baselines)
         /\ vis'.v.uvw = vis.v.uvw
         /\ vis'.v.flags = vis.v.flags
      ]_vars

C15_Witness ==
    /\ ~vis.none
    /\ vis.made = "create_visibility"
    /\ vis.ops = {"select_r_range"}
    /\ visout.op = "select_r_range"
    /\ visout.ok
    /\ ~(visout.args.rmin.none /\ visout.args.rmax.none)
    /\ visout.args.nbaselines = Len(vis.v.baselines)
    /\ Len(vis.v.baselines) = 3
    /\ nants(vis.v.configuration) = 3
    /\ AntennasOf(vis.v.baselines) =
          Range(SelectedIds(vis.v.configuration, visout.args.rmin, visout.args.rmax))

\* no antenna of config lies at a distance r from the centroid with
\* r > rmin and r < rmax (unset bounds imposing no limit)
NoAntennaSelected(config, rmin, rmax) ==
    \A a \in 1..Len(config.xyz) :
       ~(/\ rmin.none \/ RadiusGt(config.xyz, a, rmin.v)
         /\ rmax.none \/ RadiusLt(config.xyz, a, rmax.v))

C17_UvwLambdaValue ==
    [][(~vis.none /\ vis.v.uvw_lambda.none /\ visout'.op = "uvw_lambda") =>
         LET c == vis.v
             lam == visout'.value.v
             shape == <<Len(c.time), Len(c.baselines), Len(c.frequency), 3>>
         IN /\ lam.shape = shape
            /\ DOMAIN lam.data = Idx(shape)
            /\ \A i \in Idx(shape) :
                  lam.data[i] = c.uvw.data[<<i[1], i[2], i[4]>>] * c.frequency[i[3]]
            /\ uvw_lambda_setter(c, lam).ok
      ]_vars

C17_Witness ==
    /\ ~vis.none
    /\ visout.op = "uvw_lambda"
    /\ Len(vis.v.frequency) = 1
    /\ visout.value.v.shape = <<Len(vis.v.time), Len(vis.v.baselines), 1, 3>>
    /\ visout.value.v = ComputeUvwLambda(vis.v)
    /\ \E i \in DOMAIN visout.value.v.data : visout.value.v.data[i] # 0

\* C18: once uvw_lambda is memoised, a read returns the memoised value and
\* changes nothing, also after uvw was overwritten; select_uv_range flags by
\* the memoised value; and the memoised value changes only by an accepted
\* assignment through the setter, to exactly the assigned value.
C18_UvwLambdaMemo ==
    [][(~vis.none /\ ~vis'.none /\ ~vis.v.uvw_lambda.none) =>
         LET memo == vis.v.uvw_lambda.v
             Outside(i) ==
                \/ /\ ~visout'.args.uvmax.none
                   /\ HypotGe(memo.data[<<i[1], i[2], i[3], 1>>],
                              memo.data[<<i[1], i[2], i[3], 2>>],
                              visout'.args.uvmax.v)
                \/ /\ ~visout'.args.uvmin.none
                   /\ HypotLe(memo.data[<<i[1], i[2], i[3], 1>>],
                              memo.data[<<i[1], i[2], i[3], 2>>],
                              visout'.args.uvmin.v)
         IN /\ ~vis'.v.uvw_lambda.none
            /\ (visout'.op = "uvw_lambda") =>
                  (visout'.value.v = memo /\ vis' = vis)
            /\ (visout'.op = "select_uv_range") =>
                  \A i \in DOMAIN vis.v.flags.data :
                     vis'.v.flags.data[i] =
                        IF Outside(i) THEN 1 ELSE vis.v.flags.data[i]
            /\ (vis'.v.uvw_lambda.v # memo) =>
                  /\ visout'.op = "uvw_lambda_setter"
                  /\ visout'.ok
                  /\ visout'.args.new_value.shape =
                        <<Len(vis.v.time), Len(vis.v.baselines),
                          Len(vis.v.frequency), 3>>
            /\ (visout'.op = "uvw_lambda_setter" /\ visout'.ok) =>
                  vis'.v.uvw_lambda.v = visout'.args.new_value
      ]_vars

\* uvw was overwritten after uvw_lambda was computed from it, and a later
\* read returned the value computed before
C18_Witness ==
    /\ ~vis.none
    /\ visout.op = "uvw_lambda"
    /\ ~vis.v.uvw_lambda.none
    /\ visout.value.v = vis.v.uvw_lambda.v
    /\ vis.v.uvw = Full(vis.v.uvw.shape, 3)
    /\ vis.v.uvw_lambda.v # ComputeUvwLambda(vis.v)
    /\ \E i \in DOMAIN vis.v.uvw_lambda.v.data : vis.v.uvw_lambda.v.data[i] # 9

\* C19: an assignment to uvw_lambda of a value whose shape is not
\* (ntimes, nbaselines, nchan, 3) raises (ValueError) and leaves the
\* container, its memoised uvw_lambda (set or unset) included, as it was.
C19_SetterRejectsShape ==
    [][(~vis.none /\ visout'.op = "uvw_lambda_setter"
          /\ visout'.args.new_value.shape #
                <<Len(vis.v.time), Len(vis.v.baselines),
                  Len(vis.v.frequency), 3>>) =>
         /\ ~visout'.ok
         /\ visout'.err = "ValueError"
         /\ vis' = vis
      ]_vars

C19_Witness ==
    /\ ~vis.none
    /\ visout.op = "uvw_lambda_setter"
    /\ ~visout.ok
    /\ visout.err = "ValueError"
    /\ visout.args.new_value.shape[3] = Len(vis.v.frequency) + 1
    /\ ~vis.v.uvw_lambda.none
    /\ vis.v.uvw_lambda.v = ComputeUvwLambda(vis.v)

\* C20: a read of flagged_vis and flagged_weight returns, element by
\* element, vis and weight where the flag is 0 and 0 where the flag is 1,
\* by the flags of the container at the time of the read, and changes no
\* field of the container.
C20_FlaggedViews ==
    [][(~vis.none /\ visout'.op = "flagged") =>
         /\ vis' = vis
         /\ DOMAIN visout'.value.v.flagged_vis.data = DOMAIN vis.v.vis.data
         /\ DOMAIN visout'.value.v.flagged_weight.data = DOMAIN vis.v.weight.data
         /\ \A i \in DOMAIN vis.v.flags.data :
               /\ vis.v.flags.data[i] \in {0, 1}
               /\ visout'.value.v.flagged_vis.data[i] =
                     IF vis.v.flags.data[i] = 0 THEN vis.v.vis.data[i] ELSE 0
               /\ visout'.value.v.flagged_weight.data[i] =
                     IF vis.v.flags.data[i] = 0 THEN vis.v.weight.data[i] ELSE 0
      ]_vars

\* a read after select_uv_range set some flags: flagged samples read 0,
\* the others read their vis
C20_Witness ==
    /\ ~vis.none
    /\ visout.op = "flagged"
    /\ "select_uv_range" \in vis.ops
    /\ \E i \in DOMAIN vis.v.flags.data :
          /\ vis.v.flags.data[i] = 1
          /\ vis.v.vis.data[i] # 0
          /\ visout.value.v.flagged_vis.data[i] = 0
    /\ \E i \in DOMAIN vis.v.flags.data :
          /\ vis.v.flags.data[i] = 0
          /\ visout.value.v.flagged_vis.data[i] # 0

\* the input times of the last create_visibility call whose elevation is
\* strictly above the limit it was given, in input order
TimesAbove ==
    LET limit == visout.args.elevation_limit
    IN SelectSeq(visout.args.times,
                 LAMBDA ha : limit.none \/ Elevation(ha) > limit.v)

\* C21: create_visibility keeps exactly the input times whose elevation is
\* strictly above elevation_limit (all of them when the limit is None): the
\* time axis of the result has as many entries as there are such inputs,
\* they are the retained times in input order, and every array with a time
\* axis has that many rows. A call with a phase centre and at least one
\* such time succeeds.
C21_ElevationFilter ==
    visout.op = "create_visibility" =>
      /\ (~visout.args.phasecentre.none /\ Len(TimesAbove) > 0) => visout.ok
      /\ visout.ok =>
            LET T == Len(TimesAbove)
                c == vis.v
            IN /\ ~vis.none
               /\ T = Cardinality({i \in DOMAIN visout.args.times :
                        \/ visout.args.elevation_limit.none
                        \/ Elevation(visout.args.times[i]) >
                              visout.args.elevation_limit.v})
               /\ Len(c.time) = T
               /\ c.time = [i \in 1..T |-> TimeOf(TimesAbove[i])]
               /\ Len(c.integration_time) = T
               /\ Len(c.datetime) = T
               /\ c.vis.shape[1] = T
               /\ c.weight.shape[1] = T
               /\ c.flags.shape[1] = T
               /\ c.uvw.shape[1] = T
               /\ \A i \in Idx(c.uvw.shape) :
                     i[3] # 3 =>
                       c.uvw.data[i] =
                         TimesAbove[i[1]] *
                           (c.configuration.xyz[c.baselines[i[2]][2] + 1][i[3]]
                            - c.configuration.xyz[c.baselines[i[2]][1] + 1][i[3]])

\* a call with a limit kept one of two times and dropped the one whose
\* elevation equals the limit
C21_Witness ==
    /\ visout.op = "create_visibility"
    /\ visout.ok
    /\ ~visout.args.elevation_limit.none
    /\ Len(visout.args.times) = 2
    /\ \E i \in 1..2 :
          Elevation(visout.args.times[i]) = visout.args.elevation_limit.v
    /\ Len(vis.v.time) = 1

\* C22 as stated: when every input time of create_visibility is at or below
\* the elevation limit, the call fails, produces no container, and reports
\* the number of samples that were filtered out.
C22_EmptySelectionReported ==
    (/\ visout.op = "create_visibility"
     /\ ~visout.args.phasecentre.none
     /\ Len(visout.args.times) > 0
     /\ Len(TimesAbove) = 0) =>
      /\ ~visout.ok
      /\ visout.value.none
      /\ vis.none
      /\ \E i \in DOMAIN visout.report.numbers :
            visout.report.numbers[i] = Len(visout.args.times)

\* C28 as stated: in the Visibility returned by create_visibility, every
\* cross-correlation sample (antenna1 # antenna2) has the weight argument
\* as its weight and flag 0, and every autocorrelation sample
\* (antenna1 = antenna2) has weight 0 and flag 1, for every retained time,
\* channel and polarisation.
C28_AutocorrelationsFlagged ==
    (visout.op = "create_visibility" /\ visout.ok) =>
      \A i \in Idx(vis.v.vis.shape) :
        LET a1 == vis.v.baselines[i[2]][1]
            a2 == vis.v.baselines[i[2]][2]
        IN IF a1 # a2
           THEN /\ vis.v.weight.data[i] = visout.args.weight
                /\ vis.v.flags.data[i] = 0
           ELSE /\ vis.v.weight.data[i] = 0
                /\ vis.v.flags.data[i] = 1

\* C26 as stated: Visibility.copy(zero=True), for either value of deep,
\* returns a copy whose vis data is all zero while the vis data of the
\* Visibility it was copied from is unchanged; with zero=False the vis of
\* the copy equals that of the original.
C26_CopyZeroKeepsOriginal ==
    [][visout'.op = "copy" =>
         /\ visout'.args.zero =>
               /\ vis'.v.vis = Full(vis.v.vis.shape, 0)
               /\ visout'.value.v.vis = vis.v.vis
         /\ ~visout'.args.zero => vis'.v.vis = vis.v.vis]_vars

\* C29 as stated: in any sequence of select_r_range calls, with arbitrary
\* bounds, applied one after another to a create_visibility result, each
\* call succeeds, every baseline row of its result carries the
\* (antenna1, antenna2) label the row had in the container it was called
\* on, and there are as many labels as data rows.
C29_SelectRRangeSequence ==
    [][(visout'.op = "select_r_range" /\ vis.made = "create_visibility") =>
         /\ visout'.ok
         /\ Len(vis'.v.baselines) = vis'.v.vis.shape[2]
         /\ \A k \in DOMAIN vis'.v.baselines :
               \E b \in DOMAIN vis.v.baselines :
                 /\ vis.v.baselines[b] = vis'.v.baselines[k]
                 /\ TakeRows(vis'.v.uvw, <<k>>) = TakeRows(vis.v.uvw, <<b>>)]_vars

\* C30 as stated: in every Visibility reachable by imaging_weight
\* assignment, copy and select_r_range, the _imaging_weight field is unset
\* or has exactly the shape of the weight array of that container; the
\* setter rejects a value of another shape with an error and leaves the
\* field as it was.
C30_ImagingWeightShape ==
    [][/\ ~vis'.none =>
            \/ vis'.v.imaging_weight.none
            \/ vis'.v.imaging_weight.v.shape = vis'.v.weight.shape
       /\ (/\ visout'.op = "imaging_weight_setter"
           /\ visout'.args.new_value.shape # vis.v.weight.shape) =>
            /\ ~visout'.ok
            /\ visout'.err = "ValueError"
            /\ vis'.v.imaging_weight = vis.v.imaging_weight]_vars

\* the statistics of an array of S ones, as C23 states them: sum is S,
\* max, min and medianabs are 1 (max and min being those of the absolute
\* values), rms is 0
AllOnesStatistics(stats, S) ==
    /\ "sum" \in DOMAIN stats /\ stats.sum = S
    /\ "maxabs" \in DOMAIN stats /\ stats.maxabs = 1
    /\ "minabs" \in DOMAIN stats /\ stats.minabs = 1
    /\ "medianabs" \in DOMAIN stats
    /\ stats.medianabs.num = stats.medianabs.den
    /\ "rms" \in DOMAIN stats /\ stats.rms.variance.num = 0

AllOnes(a) == \A i \in DOMAIN a.data : a.data[i] = 1

\* C23 as stated: quality assessment of a container whose primary array
\* (vis for qa_visibility, flags for qa_flag_table) is all ones with S
\* elements returns statistics with sum = S, max = min = medianabs = 1
\* and rms = 0, leaves the container unchanged, and returns the same
\* statistics when called again on the unmodified container.
C23_AllOnesQuality ==
    [][/\ (visout'.op = "qa_visibility" /\ AllOnes(vis.v.vis)) =>
            /\ AllOnesStatistics(visout'.value.v, Cardinality(DOMAIN vis.v.vis.data))
            /\ vis' = vis
            /\ visout.op = "qa_visibility" => visout'.value = visout.value
       /\ (visout'.op = "qa_flag_table" /\ AllOnes(ft.v.flags)) =>
            /\ AllOnesStatistics(visout'.value.v, Cardinality(DOMAIN ft.v.flags.data))
            /\ ft' = ft
            /\ visout.op = "qa_flag_table" => visout'.value = visout.value]_vars

\* C24: create_flagtable_from_visibility(vis) returns a FlagTable whose
\* time, baselines, frequency and polarisation axes have the lengths and
\* the labels of those of vis (its baselines axis carries the antenna
\* pairs of vis), whose flags equal the flags of vis, and whose data_model
\* is FlagTable.
C24_FlagTableFromVisibility ==
    visout.op = "create_flagtable_from_visibility" =>
      /\ visout.ok
      /\ ~ft.none
      /\ ft.v.time = vis.v.time
      /\ ft.v.baselines = vis.v.baselines
      /\ ft.v.frequency = vis.v.frequency
      /\ ft.v.polarisation = vis.v.polarisation
      /\ ft.v.flags.shape = <<Len(vis.v.time), Len(vis.v.baselines),
                              Len(vis.v.frequency), Len(vis.v.polarisation)>>
      /\ ft.v.flags.shape = vis.v.flags.shape
      /\ ft.v.flags.data = vis.v.flags.data
      /\ ft.v.data_model = "FlagTable"

\* a FlagTable was made from a Visibility of several baselines some of
\* whose samples are flagged and some are not
C24_Witness ==
    /\ visout.op = "create_flagtable_from_visibility"
    /\ ~ft.none
    /\ Len(ft.v.baselines) > 1
    /\ \E i, j \in DOMAIN ft.v.flags.data :
          ft.v.flags.data[i] = 1 /\ ft.v.flags.data[j] = 0

\* C25 as stated: a FlagTable made from a Visibility is stored
\* independently of it: a later in-place flagging of vis (select_uv_range)
\* leaves the flags of the FlagTable unchanged, and changing the flags of
\* the FlagTable leaves the flags of vis unchanged.
C25_FlagTableIndependent ==
    [][/\ (visout'.op = "select_uv_range" /\ ~ft.none) =>
            ft'.v.flags.data = ft.v.flags.data
       /\ visout'.op = "flags_fill" => vis'.v.flags = vis.v.flags]_vars

\* C27 as stated: FlagTable.copy(zero=True) succeeds and returns a
\* FlagTable whose flags are all zero, with the axes of the original.
C27_FlagTableCopyZero ==
    [][(visout'.op = "flagtable_copy" /\ visout'.args.zero) =>
         /\ visout'.ok
         /\ \A i \in DOMAIN ft'.v.flags.data : ft'.v.flags.data[i] = 0
         /\ ft'.v.time = ft.v.time
         /\ ft'.v.baselines = ft.v.baselines
         /\ ft'.v.frequency = ft.v.frequency
         /\ ft'.v.polarisation = ft.v.polarisation]_vars
====
